---- MODULE Spec2Model ----
(***************************************************************************)
(* FQDN feed service (AWS Lambda handler behind API GW, DynamoDB store).   *)
(*                                                                         *)
(* The repository holds two builds of the handler:                         *)
(*   "promise" : src/src/dnsfeedsrv.ts with the storage class of           *)
(*               src/unnamed/part_003 (time passed as a parameter), and    *)
(*               the same promise chain in src/unnamed/part_000 with       *)
(*               src/src/localstore.ts + src/src/utils.ts (time read from  *)
(*               utils.currentTime()).  The two are the same state machine.*)
(*   "async"   : src/unnamed/part_001 (async/await) with                   *)
(*               src/src/localstore.ts + src/src/utils.ts.                 *)
(* The variable build says which one the process runs.                     *)
(***************************************************************************)
EXTENDS Integers, Sequences, FiniteSets, TLC

(***************************************************************************)
(* Program constants                                                       *)
(***************************************************************************)
DEFAULT_SPAN == 86400
DEFAULT_TTL == 60

(***************************************************************************)
(* Bounds of the model                                                     *)
(***************************************************************************)
\* handler invocations in one process lifetime, when the configuration
\* document starts at most one resolution per pass
MaxReq == 2
\* handler invocations in one process lifetime, when a pass starts several
\* or fails in its walk
MaxReqWide == 1
\* handler invocations in one process lifetime, for the process followed
\* through a failed pass and the pass after it
MaxReqOverlap == 2
\* the clock (epoch seconds) runs over 0..MaxTime
MaxTime == 2
\* handler invocations in one process lifetime, for the process that is also
\* sent requests to the config entry point
MaxReqConfig == 2

(***************************************************************************)
(* JSON values.  A string is a tuple of one-character strings.             *)
(*   [t |-> "null"|"bool"|"num"|"str"|"arr"|"obj", v |-> payload]          *)
(* an object's payload is the sequence of its <<key, value>> pairs in      *)
(* property order, an array's payload the sequence of its elements.        *)
(***************************************************************************)
Null == [t |-> "null", v |-> <<>>]
Bool(b) == [t |-> "bool", v |-> b]
Num(n) == [t |-> "num", v |-> n]
Str(s) == [t |-> "str", v |-> s]
Arr(items) == [t |-> "arr", v |-> items]
Obj(kv) == [t |-> "obj", v |-> kv]

\* value that stands for JavaScript's undefined (never part of a JSON document)
Undefined == [t |-> "undefined", v |-> <<>>]

Letters ==
    {"a","b","c","d","e","f","g","h","i","j","k","l","m","n","o","p","q","r",
     "s","t","u","v","w","x","y","z",
     "A","B","C","D","E","F","G","H","I","J","K","L","M","N","O","P","Q","R",
     "S","T","U","V","W","X","Y","Z"}
Digits == {"0","1","2","3","4","5","6","7","8","9"}
\* the character class [a-z,0-9-_] under the i flag
LabelChar == Letters \cup Digits \cup {",", "-", "_"}

\* basicFqdnRegex = /^([a-z,0-9-_]+\.)+[a-z,0-9-_]+$/i  applied to a string:
\* s is accepted iff scanning it left to right stays in the automaton
\*   0 (label expected) --c--> 1 (in label) --"."--> 0, with at least one "."
\* and ends in state 1.
RECURSIVE RegexScan(_, _, _, _)
RegexScan(s, i, inLabel, dots) ==
    IF i > Len(s) THEN inLabel /\ dots > 0
    ELSE IF s[i] \in LabelChar THEN RegexScan(s, i + 1, TRUE, dots)
    ELSE IF s[i] = "." /\ inLabel THEN RegexScan(s, i + 1, FALSE, dots + 1)
    ELSE FALSE

basicFqdnRegex(s) == RegexScan(s, 1, FALSE, 0)

DigitOf(n) == <<"0","1","2","3","4","5","6","7","8","9">>[n + 1]

\* String(x), the coercion RegExp.prototype.exec applies to its argument
RECURSIVE StringOf(_)
RECURSIVE JoinComma(_, _)
JoinComma(items, i) ==
    IF i > Len(items) THEN <<>>
    ELSE (IF items[i].t = "null" THEN <<>> ELSE StringOf(items[i]))
         \o (IF i < Len(items) THEN <<",">> ELSE <<>>)
         \o JoinComma(items, i + 1)
StringOf(x) ==
    CASE x.t = "str" -> x.v
      [] x.t = "null" -> <<"n","u","l","l">>
      [] x.t = "bool" -> IF x.v THEN <<"t","r","u","e">> ELSE <<"f","a","l","s","e">>
      [] x.t = "num" -> <<DigitOf(x.v)>>
      [] x.t = "arr" -> JoinComma(x.v, 1)
      [] x.t = "obj" -> <<"[","o","b","j","e","c","t"," ","O","b","j","e","c","t","]">>

\* x[key] of a non-null value: only objects of a JSON document own properties
RECURSIVE PropScan(_, _, _)
PropScan(kv, key, i) ==
    IF i > Len(kv) THEN Undefined
    ELSE IF kv[i][1] = key THEN kv[i][2]
    ELSE PropScan(kv, key, i + 1)
GetProp(x, key) == IF x.t = "obj" THEN PropScan(x.v, key, 1) ELSE Undefined

\* isRequest(arg) for arg # null (on null the property read throws TypeError)
isRequest(x) ==
    /\ GetProp(x, "fqdn").t # "undefined"
    /\ basicFqdnRegex(StringOf(GetProp(x, "fqdn")))

\* typeof arg == "object"
IsObjectTypeMutNoArray(x) == x.t \in {"obj", "null"}

IsObjectType(x) == x.t \in {"obj", "arr", "null"}

\* the element a path (sequence of child positions) leads to, and its update
Child(x, i) == IF x.t = "obj" THEN x.v[i][2] ELSE x.v[i]
RECURSIVE NodeAt(_, _)
NodeAt(x, path) ==
    IF path = <<>> THEN x ELSE NodeAt(Child(x, Head(path)), Tail(path))
RECURSIVE SetAt(_, _, _)
SetAt(x, path, r) ==
    IF path = <<>> THEN r
    ELSE LET i == Head(path)
             sub == SetAt(Child(x, i), Tail(path), r)
         IN  IF x.t = "obj"
             THEN [x EXCEPT !.v = [x.v EXCEPT ![i] = <<x.v[i][1], sub>>]]
             ELSE [x EXCEPT !.v = [x.v EXCEPT ![i] = sub]]

(***************************************************************************)
(* Address ledgers (utils.addrValidUntil): a JavaScript object used as a   *)
(* map address -> validUntil, kept as the sequence of its <<address,       *)
(* validUntil>> entries in property (insertion) order.                     *)
(***************************************************************************)
RECURSIVE IndexOf(_, _, _)
IndexOf(dict, address, i) ==
    IF i > Len(dict) THEN 0
    ELSE IF dict[i][1] = address THEN i
    ELSE IndexOf(dict, address, i + 1)

\* address in dict
HasKey(dict, address) == IndexOf(dict, address, 1) # 0
\* dict[address], for a key the object owns
ValueOf(dict, address) == dict[IndexOf(dict, address, 1)][2]
\* dict[address] = value: an own key keeps its place, a new key goes last
Assign(dict, address, value) ==
    IF HasKey(dict, address)
    THEN [dict EXCEPT ![IndexOf(dict, address, 1)] = <<address, value>>]
    ELSE Append(dict, <<address, value>>)

Keys(dict) == {dict[i][1] : i \in 1..Len(dict)}

\* storage.ttlUpdated: the test, and the ledger it leaves behind
ttlUpdatedMutStale(item, dict, span, now) ==
    LET address == item[1]
        validUntil == item[2]
        hit == ~HasKey(dict, address)
    IN  [ret |-> hit, dict |-> IF hit THEN Assign(dict, address, validUntil) ELSE dict]

ttlUpdated(item, dict, span, now) ==
    LET address == item[1]
        validUntil == item[2]
        hit == ~HasKey(dict, address) \/ now - span > ValueOf(dict, address)
    IN  [ret |-> hit, dict |-> IF hit THEN Assign(dict, address, validUntil) ELSE dict]

\* Object.entries(localEntries[fqdn].ipvN).filter(item => ttlUpdatedN(fqdn, item, span, now)):
\* the items kept, and the ledger after the calls
RECURSIVE FilterUpdated(_, _, _, _, _)
FilterUpdated(entries, i, dict, span, now) ==
    IF i > Len(entries) THEN [kept |-> <<>>, dict |-> dict]
    ELSE LET u == ttlUpdated(entries[i], dict, span, now)
             rest == FilterUpdated(entries, i + 1, u.dict, span, now)
         IN  [kept |-> (IF u.ret THEN <<entries[i]>> ELSE <<>>) \o rest.kept,
              dict |-> rest.dict]

\* storage.validEntries
validEntriesMutBoundary(dict, span, now) ==
    LET RECURSIVE Sel(_)
        Sel(i) == IF i > Len(dict) THEN <<>>
                  ELSE (IF dict[i][2] >= now - span THEN <<dict[i][1]>> ELSE <<>>)
                       \o Sel(i + 1)
    IN  Sel(1)

validEntries(dict, span, now) ==
    LET RECURSIVE Sel(_)
        Sel(i) == IF i > Len(dict) THEN <<>>
                  ELSE (IF dict[i][2] > now - span THEN <<dict[i][1]>> ELSE <<>>)
                       \o Sel(i + 1)
    IN  Sel(1)

(***************************************************************************)
(* DNS answers.  A lookup ends with an error or with a list of records     *)
(* [address, ttl]; a ttl is <<n>> (a number) or <<>> (no usable number).   *)
(***************************************************************************)
DnsError == [err |-> TRUE, addr |-> <<>>]
DnsOk(records) == [err |-> FALSE, addr |-> records]
Rec(address, ttl) == [address |-> address, ttl |-> ttl]

\* Number(x) : [nan, n]
NumberOf(raw) == IF raw = <<>> THEN [nan |-> TRUE, n |-> 0] ELSE [nan |-> FALSE, n |-> raw[1]]

\* if (isNaN(ttl) || ttl == 0) ttl = DEFAULT_TTL
AttributedTtl(raw) ==
    LET ttl == NumberOf(raw)
    IN  IF ttl.nan \/ ttl.n = 0 THEN DEFAULT_TTL ELSE ttl.n

\* for (let i in addr) {... localEntries[fqdn].ipvN[address] = now + ttl }
RECURSIVE LocalEntries(_, _, _, _)
LocalEntries(addr, i, acc, now) ==
    IF i > Len(addr) THEN acc
    ELSE LocalEntries(addr, i + 1,
                      Assign(acc, addr[i].address, now + AttributedTtl(addr[i].ttl)), now)

\* the body of one lookup callback: [kept |-> ipvNUpdated, dict |-> ledger after]
MergeAnswerMutErrorClears(answer, dict, span, now) ==
    IF answer.err THEN [kept |-> <<>>, dict |-> <<>>]
    ELSE FilterUpdated(LocalEntries(answer.addr, 1, <<>>, now), 1, dict, span, now)

MergeAnswer(answer, dict, span, now) ==
    IF answer.err THEN [kept |-> <<>>, dict |-> dict]
    ELSE FilterUpdated(LocalEntries(answer.addr, 1, <<>>, now), 1, dict, span, now)

(***************************************************************************)
(* The world the process runs in: names, addresses, resolver answers,      *)
(* configuration documents and query strings the model draws from.         *)
(***************************************************************************)
F1 == <<"x", ".", "a">>
F2 == <<"x", ".", "b">>
Fqdns == {F1, F2}

A1 == <<"4", "a">>
A2 == <<"4", "b">>
B1 == <<"6", "a">>

Families == {"ipv4", "ipv6"}

\* what dns.resolve4 / dns.resolve6 may answer
Resolver(fam) ==
    IF fam = "ipv4"
    THEN {DnsOk(<<>>), DnsOk(<<Rec(A1, <<1>>)>>), DnsOk(<<Rec(A1, <<0>>), Rec(A2, <<>>)>>)}
    ELSE {DnsError, DnsOk(<<Rec(B1, <<2>>)>>)}

\* a per-FQDN store item / cache entry
NoItem == [has |-> FALSE, ipv4 |-> <<>>, ipv6 |-> <<>>]
Item(ipv4, ipv6) == [has |-> TRUE, ipv4 |-> ipv4, ipv6 |-> ipv6]

\* store items an earlier process may have left behind for F1
OldItems == {NoItem, Item(<<<<A1, 0>>, <<A2, -8>>>>, <<>>)}

Req(fqdn) == Obj(<< <<"fqdn", Str(fqdn)>> >>)
Static == <<"s", "t", "a", "t", "i", "c">>

TplOne == Obj(<< <<"A", Req(F1)>> >>)
TplTwice == Obj(<< <<"A", Req(F1)>>, <<"B", Req(F1)>> >>)
TplMixed == Obj(<< <<"A", Req(F1)>>, <<"note", Str(Static)>>,
                   <<"B", Arr(<<Num(1), Req(F2)>>)>> >>)
TplPlain == Obj(<< <<"n", Num(7)>>,
                   <<"l", Arr(<<Str(Static), Bool(TRUE), Obj(<< <<"fqdn", Str(Static)>> >>)>>)>> >>)
TplNull == Obj(<< <<"A", Req(F1)>>, <<"z", Null>>, <<"B", Req(F2)>> >>)
TplPlainNull == Obj(<< <<"n", Num(7)>>, <<"z", Arr(<<Null>>)>> >>)

TplFqdnNull == Obj(<< <<"B", Obj(<< <<"fqdn", Null>> >>)>> >>)

Templates == {TplOne, TplTwice, TplMixed, TplPlain, TplNull, TplPlainNull, TplFqdnNull}

\* query string parameters: absent, or present with their text
Absent == [p |-> FALSE, raw |-> <<>>]
Param(raw) == [p |-> TRUE, raw |-> raw]
NumParam(n) == Param(<<DigitOf(n)>>)
NoV == <<>>
NullQs == [null |-> TRUE, v |-> NoV, span |-> Absent]
Qs(v, span) == [null |-> FALSE, v |-> v, span |-> span]

\* the stage variable `secret`
Secret == <<"s">>
\* a request to the config entry point: its HTTP method, its query string
\* (null, or an object with the key parameter absent or present) and its body
\* (event.body: null, or a text)
NullKeyQs == [null |-> TRUE, key |-> Absent]
KeyQs(key) == [null |-> FALSE, key |-> key]
Cfg(method, qs, body) == [method |-> method, qs |-> qs, body |-> body]
NoCfg == Cfg("", NullKeyQs, Absent)

\* body texts: {"A":{"fqdn":"x.a"}}, { "B" : {"fqdn":"x.b"} }, {"A": (cut
\* short), "x.a", 7, null and [7]
BodyOne ==
    <<"{", "\"", "A", "\"", ":", "{", "\"", "f", "q", "d", "n", "\"", ":",
      "\"", "x", ".", "a", "\"", "}", "}">>
BodyTwo ==
    <<"{", " ", "\"", "B", "\"", " ", ":", " ", "{", "\"", "f", "q", "d", "n", "\"", ":",
      "\"", "x", ".", "b", "\"", "}", " ", "}">>
BodyCut == <<"{", "\"", "A", "\"", ":">>
BodyString == <<"\"", "x", ".", "a", "\"">>
BodyNumber == <<"7">>
BodyNull == <<"n", "u", "l", "l">>
BodyArray == <<"[", "7", "]">>

\* what the table may hold under the config id besides a document: no item
\* at all, or an item without a config attribute (Undefined)
NoConfigItem == [t |-> "noitem", v |-> <<>>]

\* What one process is given: the handler it runs (builds), the items (items)
\* and configuration documents (tpls) its table may hold, what its resolver
\* may answer (dns), the query strings (qs) and arrival times (times) of its
\* feed requests, and how many invocations it serves when the stored document
\* starts at most one resolution per pass (reqs) or more (reqsWide).
MainEnv ==
    [builds |-> {"promise", "async"},
     items |-> OldItems,
     tpls |-> Templates,
     dns |-> [fam \in Families |-> Resolver(fam)],
     qs |-> {Qs(<<"json">>, Absent), Qs(<<"json">>, NumParam(1))},
     times |-> 0..MaxTime,
     reqs |-> MaxReq, reqsWide |-> MaxReqWide]

(***************************************************************************)
(* State                                                                   *)
(***************************************************************************)
VARIABLES
    env,             \* the requests the process is sent (fixed at start)
    build,           \* which handler the process runs: "promise" or "async"
    currentTime,     \* dnsfeedsrv.ts `currentTime` / utils.ts `cTime`
    localDict,       \* storage.localDict : fqdn -> cache entry
    dbItems,         \* the table's per-FQDN items
    dbConfig,        \* the table's configuration document
    services,        \* the fqdnService objects ever built
    stagedServices,  \* index in services of stagedServices[configFile], 0 if none
    dbClient,        \* dnsfeedsrv.ts `dbClient`: the table of the module's client
    req,             \* the handler invocations
    nreq,            \* how many invocations have started
    gets,            \* fqdn -> number of safeGetById calls issued
    seen             \* <<fqdn, family, address>> -> time of the latest request
                     \* in which the resolver returned it, -1 if never

vars == <<env, build, currentTime, localDict, dbItems, dbConfig, services,
          stagedServices, dbClient, req, nreq, gets, seen>>

\* The API stages whose requests reach the process: the stage name (part of
\* the configuration id) and its dbtable stage variable.  dbItems and dbConfig
\* are the table of MainStage and its configuration item; of another stage
\* the model follows the names only, and no configuration is stored for it.
MainStage == [stage |-> "a", table |-> "ta"]
OtherStage == [stage |-> "b", table |-> "tb"]
Stages == IF "stages" \in DOMAIN env THEN env.stages ELSE {MainStage}
\* let dbClient (not yet constructed)
NoClient == "null"

AllAddr == {A1, A2, B1}

EmptyBuffer == [ipv4 |-> <<>>, ipv6 |-> <<>>]
NoOut == [status |-> 0, kind |-> "none", lines |-> <<>>, doc |-> Undefined]
\* One invocation.  For a request to the config entry point: cfg is the
\* request, body the parsed configBody, had whether stagedServices held a
\* service when the handler looked, cput its putNewConfig call (none, sent, ok,
\* failed).  store counts the configuration reads and writes the invocation
\* has sent to the table.  stage and table are the stage and the dbtable stage
\* variable of the event, tableName the table of the dydbif object the
\* handler's own store calls go through.
NewReq ==
    [pc |-> "new", T |-> 0, qs |-> NullQs, span |-> 0, fs |-> 0,
     tmpl |-> Undefined, doc |-> Undefined, shared |-> FALSE, tasks |-> <<>>,
     out |-> NoOut,
     cfg |-> NoCfg, body |-> Undefined, had |-> FALSE, cput |-> "none", store |-> 0,
     stage |-> "", table |-> "", tableName |-> NoClient]

InitProcess ==
    /\ build \in env.builds
    /\ currentTime = 0
    /\ localDict = [f \in Fqdns |-> NoItem]
    /\ \E it \in env.items : dbItems = [f \in Fqdns |-> IF f = F1 THEN it ELSE NoItem]
    /\ dbConfig \in env.tpls
    /\ services = <<>>
    /\ stagedServices = 0
    /\ dbClient = NoClient
    /\ req = [r \in 1..(IF env.reqs > env.reqsWide THEN env.reqs ELSE env.reqsWide) |-> NewReq]
    /\ nreq = 0
    /\ gets = [f \in Fqdns |-> 0]
    /\ seen = [k \in Fqdns \X Families \X AllAddr |-> -1]

Init ==
    /\ env = MainEnv
    /\ InitProcess

(***************************************************************************)
(* The handler's pure parts                                                *)
(***************************************************************************)
\* Number(text) for the texts made of spaces, a sign, decimal digits and other
\* characters: surrounding white space is dropped, the empty text is 0, an
\* optionally signed run of decimal digits is its value, anything else is
\* NaN.  (Fractions, exponents, radix prefixes and Infinity are left out: the
\* model's numbers are integers.)
RECURSIVE TrimStart(_)
TrimStart(s) == IF s # <<>> /\ Head(s) = " " THEN TrimStart(Tail(s)) ELSE s
RECURSIVE TrimEnd(_)
TrimEnd(s) ==
    IF s # <<>> /\ s[Len(s)] = " " THEN TrimEnd(SubSeq(s, 1, Len(s) - 1)) ELSE s
DigitValue(c) == CHOOSE n \in 0..9 : DigitOf(n) = c
\* the value of a run of decimal digits, -1 when another character is met
RECURSIVE DecimalValue(_, _, _)
DecimalValue(s, i, acc) ==
    IF i > Len(s) THEN acc
    ELSE IF s[i] \in Digits THEN DecimalValue(s, i + 1, 10 * acc + DigitValue(s[i]))
    ELSE -1
StringToNumber(text) ==
    LET s == TrimEnd(TrimStart(text))
        signed == s # <<>> /\ s[1] \in {"+", "-"}
        digits == IF signed THEN Tail(s) ELSE s
        n == DecimalValue(digits, 1, 0)
    IN  IF s = <<>> THEN [nan |-> FALSE, n |-> 0]
        ELSE IF digits = <<>> \/ n < 0 THEN [nan |-> TRUE, n |-> 0]
        ELSE [nan |-> FALSE, n |-> IF s[1] = "-" THEN -n ELSE n]

\* handler: let span = DEFAULT_SPAN; if (qs !== null && 'span' in qs) {...}
SpanOfMutZero(qs) ==
    IF ~qs.null /\ qs.span.p
    THEN LET parsedScope == StringToNumber(qs.span.raw)
         IN  IF ~parsedScope.nan THEN parsedScope.n ELSE DEFAULT_SPAN
    ELSE DEFAULT_SPAN

SpanOf(qs) ==
    IF ~qs.null /\ qs.span.p
    THEN LET parsedScope == StringToNumber(qs.span.raw)
         IN  IF ~parsedScope.nan /\ parsedScope.n # 0 THEN parsedScope.n ELSE DEFAULT_SPAN
    ELSE DEFAULT_SPAN

\* handler: the response chosen once drillDown has resolved
Format(qs, buffer, doc) ==
    IF qs.null \/ (qs.v # NoV /\ qs.v = <<"ipv4">>)
    THEN [status |-> 200, kind |-> "plain", lines |-> buffer.ipv4, doc |-> Undefined]
    ELSE IF qs.v # NoV /\ qs.v = <<"ipv6">>
    THEN [status |-> 200, kind |-> "plain", lines |-> buffer.ipv6, doc |-> Undefined]
    ELSE [status |-> 200, kind |-> "json", lines |-> <<>>, doc |-> doc]

Error501 == [status |-> 501, kind |-> "error", lines |-> <<>>, doc |-> Undefined]

\* The synchronous part of drillDown(arg, span): the Request leaves reached, in
\* walk order, each as [path, fqdn]; threw = the walk hit isRequest(null), whose
\* property read throws and ends the walk there.
RECURSIVE drillDown(_, _)
RECURSIVE drillKeys(_, _, _)
drillKeys(arg, path, i) ==
    IF i > Len(arg.v) THEN [leaves |-> <<>>, threw |-> FALSE]
    ELSE LET d == drillDown(Child(arg, i), Append(path, i))
         IN  IF d.threw THEN d
             ELSE LET rest == drillKeys(arg, path, i + 1)
                  IN  [leaves |-> d.leaves \o rest.leaves, threw |-> rest.threw]
drillDown(arg, path) ==
    IF arg.t = "null" THEN [leaves |-> <<>>, threw |-> TRUE]
    ELSE IF isRequest(arg)
    THEN [leaves |-> <<[path |-> path, fqdn |-> StringOf(GetProp(arg, "fqdn"))]>>,
          threw |-> FALSE]
    ELSE IF IsObjectType(arg) THEN drillKeys(arg, path, 1)
    ELSE [leaves |-> <<>>, threw |-> FALSE]

StrList(addresses) == [i \in 1..Len(addresses) |-> Str(addresses[i])]

NoAnswer == [err |-> FALSE, addr |-> <<>>]
NoUpd == [ipv4 |-> <<>>, ipv6 |-> <<>>]
NoRet == [ipv4 |-> NoAnswer, ipv6 |-> NoAnswer]
\* One resolveDns call: its position (pc), its locals (d: which lookup has
\* answered, upd: ipv4Updated / ipv6Updated), its putItem request (put: none,
\* sent, ok, failed; item: the item sent) and its result (resp).  nput counts
\* the putItem calls it made, ret keeps the answers its lookups got and got
\* how its safeGetById call ended: none (no call answered), item (the stored
\* item was read), lost (an item is stored and the read failed), absent (no
\* item is stored, whether the read failed or not).
NewTask(leaf, cached) ==
    [path |-> leaf.path, fqdn |-> leaf.fqdn,
     pc |-> IF cached THEN "dns" ELSE "get",
     d |-> [ipv4 |-> FALSE, ipv6 |-> FALSE],
     upd |-> NoUpd,
     put |-> "none", item |-> NoItem, nput |-> 0, resp |-> Undefined,
     ret |-> NoRet, got |-> "none"]

(***************************************************************************)
(* Steps on w = [ld |-> localDict, sv |-> services, rq |-> req]            *)
(***************************************************************************)
World == [ld |-> localDict, sv |-> services, rq |-> req]

AllDone(q) == \A k \in 1..Len(q.tasks) : q.tasks[k].pc = "done"

\* the handler's .then(processedConfig => ...) continuation
Answer200(w, r) ==
    LET q == w.rq[r]
    IN  [w EXCEPT !.rq[r].pc = "done",
                  !.rq[r].out = Format(q.qs, w.sv[q.fs].responseBuffer, q.doc)]

\* the handler's .catch(e => utils.response501(e)) / catch (e) {...}
Answer501(w, r) == [w EXCEPT !.rq[r].pc = "done", !.rq[r].out = Error501]

\* Promise.all(...).then(() => arg) up to the root, once a leaf has resolved
Complete(w, r) ==
    IF w.rq[r].pc = "walk" /\ AllDone(w.rq[r]) THEN Answer200(w, r) ELSE w

\* let response: Response = {}; if (ipv4Entries.length > 0) response.ipv4 = ...
ResponseOfMutAlwaysKeys(ipv4Entries, ipv6Entries) ==
    Obj(<< <<"ipv4", Arr(StrList(ipv4Entries))>>, <<"ipv6", Arr(StrList(ipv6Entries))>> >>)

ResponseOf(ipv4Entries, ipv6Entries) ==
    Obj((IF Len(ipv4Entries) > 0
         THEN << <<"ipv4", Arr(StrList(ipv4Entries))>> >> ELSE <<>>)
        \o (IF Len(ipv6Entries) > 0
            THEN << <<"ipv6", Arr(StrList(ipv6Entries))>> >> ELSE <<>>))

\* resolveDns: the last .then of the chain builds the response of the leaf,
\* appends to the buffer; drillDown's .then(r => arg[k] = r) stores it
RespondMutSplit(w, r, k, now) ==
    LET q == w.rq[r]
        t == q.tasks[k]
        ipv4Entries == validEntries(w.ld[t.fqdn].ipv4, q.span, now)
        ipv6Entries == validEntries(w.ld[t.fqdn].ipv6, q.span, now)
        response == ResponseOf(ipv4Entries, ipv6Entries)
        buf == w.sv[q.fs].responseBuffer
    IN  [w EXCEPT !.sv[q.fs].responseBuffer.ipv4 =
                      IF Len(ipv4Entries) > 0 THEN buf.ipv4 \o ipv4Entries ELSE buf.ipv4,
                  !.rq[r].tasks[k].pc = "done",
                  !.rq[r].tasks[k].resp = response,
                  !.rq[r].doc = SetAt(q.doc, t.path, response)]

Respond(w, r, k, now) ==
    LET q == w.rq[r]
        t == q.tasks[k]
        ipv4Entries == validEntries(w.ld[t.fqdn].ipv4, q.span, now)
        ipv6Entries == validEntries(w.ld[t.fqdn].ipv6, q.span, now)
        response == ResponseOf(ipv4Entries, ipv6Entries)
        buf == w.sv[q.fs].responseBuffer
        \* arg[k] = r writes into the walked object: the service's own template
        \* when the walk was started on it rather than on a copy
        config == IF q.shared THEN SetAt(w.sv[q.fs].serviceConfig, t.path, response)
                  ELSE w.sv[q.fs].serviceConfig
        buf2 == [ipv4 |-> IF Len(ipv4Entries) > 0 THEN buf.ipv4 \o ipv4Entries ELSE buf.ipv4,
                 ipv6 |-> IF Len(ipv6Entries) > 0 THEN buf.ipv6 \o ipv6Entries ELSE buf.ipv6]
    IN  [w EXCEPT !.sv[q.fs].responseBuffer = buf2,
                  !.sv[q.fs].serviceConfig = config,
                  !.rq[r].tasks[k].pc = "done",
                  !.rq[r].tasks[k].resp = response,
                  !.rq[r].doc = SetAt(q.doc, t.path, response)]

\* ipv4Updated.length + ipv6Updated.length > 0
UpdateWorthyMutAlways(upd) == Len(upd.ipv4) + Len(upd.ipv6) >= 0

UpdateWorthy(upd) == Len(upd.ipv4) + Len(upd.ipv6) > 0

\* the item handed to putItem: {id: fqdn, ipv4: get4(fqdn), ipv6: get6(fqdn)}
PutItemMutDelta(ld, fqdn, upd) == Item(upd.ipv4, upd.ipv6)

PutItem(ld, fqdn, upd) == Item(ld[fqdn].ipv4, ld[fqdn].ipv6)

\* resolveDns after both lookups: write back when something was update-worthy.
\* The promise chain returns the putItem promise (the response waits for it);
\* the async build calls putItem without awaiting it.
DecideMutQuietHangs(w, r, k, now) ==
    LET t == w.rq[r].tasks[k]
        item == PutItem(w.ld, t.fqdn, t.upd)
        sent == [w EXCEPT !.rq[r].tasks[k].put = "sent", !.rq[r].tasks[k].item = item,
                          !.rq[r].tasks[k].nput = t.nput + 1]
    IN  IF UpdateWorthy(t.upd)
        THEN IF build = "promise"
             THEN [sent EXCEPT !.rq[r].tasks[k].pc = "put"]
             ELSE Complete(Respond(sent, r, k, now), r)
        ELSE w

Decide(w, r, k, now) ==
    LET t == w.rq[r].tasks[k]
        item == PutItem(w.ld, t.fqdn, t.upd)
        sent == [w EXCEPT !.rq[r].tasks[k].put = "sent", !.rq[r].tasks[k].item = item,
                          !.rq[r].tasks[k].nput = t.nput + 1]
    IN  IF UpdateWorthy(t.upd)
        THEN IF build = "promise"
             THEN [sent EXCEPT !.rq[r].tasks[k].pc = "put"]
             ELSE Complete(Respond(sent, r, k, now), r)
        ELSE Complete(Respond(w, r, k, now), r)

\* JSON.parse(JSON.stringify(config)): a new tree, built node by node, that
\* shares no object with config
RECURSIVE JsonCopy(_)
JsonCopy(x) ==
    IF x.t = "obj" THEN Obj([i \in 1..Len(x.v) |-> <<x.v[i][1], JsonCopy(x.v[i][2])>>])
    ELSE IF x.t = "arr" THEN Arr([i \in 1..Len(x.v) |-> JsonCopy(x.v[i])])
    ELSE x

\* let workableConfig = ...: the tree the walk rewrites, and whether it is the
\* service's serviceConfig object itself
WorkableConfigMutAlias(config) == [val |-> config, shared |-> TRUE]

WorkableConfig(config) == [val |-> JsonCopy(config), shared |-> FALSE]

\* fs.resetBuffer(); workableConfig = JSON.parse(JSON.stringify(fs.serviceConfig));
\* fs.drillDown(workableConfig, span)  -- up to the first suspension of every leaf
Process(w, r, fs) ==
    LET config == w.sv[fs].serviceConfig
        workableConfig == WorkableConfig(config)
        walk == drillDown(workableConfig.val, <<>>)
        tasks == [k \in 1..Len(walk.leaves) |->
                     NewTask(walk.leaves[k], w.ld[walk.leaves[k].fqdn].has)]
        w1 == [w EXCEPT !.sv[fs].responseBuffer = EmptyBuffer,
                        !.rq[r].fs = fs,
                        !.rq[r].tmpl = config,
                        !.rq[r].doc = workableConfig.val,
                        !.rq[r].shared = workableConfig.shared,
                        !.rq[r].tasks = tasks,
                        !.rq[r].pc = "walk"]
    IN  IF walk.threw THEN Answer501(w1, r) ELSE Complete(w1, r)

Issued(w, r, f) ==
    Cardinality({k \in 1..Len(w.rq[r].tasks) :
                    w.rq[r].tasks[k].fqdn = f /\ w.rq[r].tasks[k].pc = "get"})

Commit(w) ==
    /\ localDict' = w.ld
    /\ services' = w.sv
    /\ req' = w.rq

(***************************************************************************)
(* Actions                                                                 *)
(***************************************************************************)
\* invocations the model follows for the stored configuration document
Budget ==
    LET walk == drillDown(dbConfig, <<>>)
    IN  IF ~walk.threw /\ Len(walk.leaves) <= 1 THEN env.reqs ELSE env.reqsWide

\* configFile in stagedServices, for a request of stage st: the model holds
\* the entry of MainStage's configuration id
Staged(st) == stagedServices # 0 /\ st.stage = MainStage.stage

\* The table of the client the store calls of a request of stage st go
\* through.  Promise chain: if (dbClient == null) dbClient = new dydbif(table),
\* the module's client, handed to every service.  Async build: the client of
\* the staged service, or new dydbif(table).
ClientOf(st, staged) ==
    IF build = "promise"
    THEN IF dbClient = NoClient THEN st.table ELSE dbClient
    ELSE IF staged THEN services[stagedServices].dbClient ELSE st.table

\* the configuration item stored for the configuration id of request q
ConfigItem(q) == IF q.stage = MainStage.stage THEN dbConfig ELSE NoConfigItem

\* exports.handler, feed path, up to its first suspension.  One container
\* serves one invocation at a time: the next starts once the previous one has
\* been answered (sub-resolutions of a failed pass may still be in flight).
StartFeed(t, qs) ==
    \E st \in Stages :
       LET r == nreq + 1
           staged == Staged(st)
           client == ClientOf(st, staged)
           w0 == [World EXCEPT !.rq[r].T = t, !.rq[r].qs = qs, !.rq[r].span = SpanOf(qs),
                               !.rq[r].stage = st.stage, !.rq[r].table = st.table,
                               !.rq[r].tableName = client]
           w1 == IF staged
                 THEN Process(w0, r, stagedServices)
                 ELSE [w0 EXCEPT !.rq[r].pc = "cfg", !.rq[r].store = 1]
       IN  /\ nreq < Budget
           /\ t >= currentTime
           /\ nreq > 0 => req[nreq].pc = "done"
           /\ nreq = 0 => st = MainStage
           /\ currentTime' = t
           /\ nreq' = r
           /\ dbClient' = IF build = "promise" THEN client ELSE dbClient
           /\ Commit(w1)
           /\ gets' = [f \in Fqdns |-> gets[f] + Issued(w1, r, f)]
           /\ UNCHANGED <<env, build, dbItems, dbConfig, stagedServices, seen>>

\* what getConfig settles with, from the outcome of docuClient.get: rejected
\* on an error, on an item that is not an object (none stored), that has no
\* config attribute or whose config is not of type "object"; resolved with a
\* copy of the config attribute otherwise
getConfig(ok, stored) ==
    IF \/ ~ok
       \/ stored = NoConfigItem
       \/ stored.t = "undefined"
       \/ ~IsObjectType(stored)
    THEN [err |-> TRUE, val |-> Undefined]
    ELSE [err |-> FALSE, val |-> JsonCopy(stored)]

\* fqdnServiceFactory: getConfig answers; on success the service is built,
\* cached in stagedServices and the pass starts
GetConfigReply(r, ok) ==
    /\ req[r].pc = "cfg"
    /\ IF ~getConfig(ok, ConfigItem(req[r])).err
       THEN LET fs == Len(services) + 1
                w0 == [World EXCEPT !.sv = Append(services,
                          [serviceConfig |-> getConfig(ok, ConfigItem(req[r])).val,
                           responseBuffer |-> EmptyBuffer,
                           dbClient |-> req[r].tableName])]
                w1 == Process(w0, r, fs)
            IN  /\ stagedServices' = fs
                /\ Commit(w1)
                /\ gets' = [f \in Fqdns |-> gets[f] + Issued(w1, r, f)]
       ELSE /\ Commit(Answer501(World, r))
            /\ UNCHANGED <<stagedServices, gets>>
    /\ UNCHANGED <<env, build, dbClient, currentTime, dbItems, dbConfig, nreq, seen>>

\* what safeGetById resolves with, from the outcome of docuClient.get:
\* if (err != null || data == null || !("Item" in data)) resolve({id, ipv4: {}, ipv6: {}})
safeGetByIdMutErrorKeepsItem(ok, stored) ==
    IF stored.has THEN stored ELSE Item(<<>>, <<>>)

safeGetById(ok, stored) ==
    IF ok /\ stored.has THEN stored ELSE Item(<<>>, <<>>)

\* refreshFqdnFromDb: safeGetById(fqdn) answers (an error or a miss as an
\* empty item), setFqdn stores it, and the lookups start
GetReply(r, k, ok) ==
    LET t == req[r].tasks[k]
        item == safeGetById(ok, dbItems[t.fqdn])
    IN  /\ t.pc = "get"
        /\ Commit([World EXCEPT !.ld[t.fqdn] = Item(item.ipv4, item.ipv6),
                                !.rq[r].tasks[k].pc = "dns",
                                !.rq[r].tasks[k].got =
                                    IF ~dbItems[t.fqdn].has THEN "absent"
                                    ELSE IF ok THEN "item" ELSE "lost"])
        /\ UNCHANGED <<env, build, dbClient, currentTime, dbItems, dbConfig, stagedServices, nreq,
                       gets, seen>>

\* the callback of dns.resolve4 / dns.resolve6 (promise chain: in either
\* order; async build: resolve6 is called after resolve4 has answered)
DnsReply(r, k, fam, answer) ==
    LET q == req[r]
        t == q.tasks[k]
        m == MergeAnswer(answer, localDict[t.fqdn][fam], q.span, currentTime)
        w1 == [World EXCEPT !.ld[t.fqdn][fam] = m.dict,
                            !.rq[r].tasks[k].d[fam] = TRUE,
                            !.rq[r].tasks[k].upd[fam] = m.kept,
                            !.rq[r].tasks[k].ret[fam] = answer]
        t1 == w1.rq[r].tasks[k]
    IN  /\ t.pc = "dns"
        /\ ~t.d[fam]
        /\ build = "async" /\ fam = "ipv6" => t.d.ipv4
        /\ Commit(IF t1.d.ipv4 /\ t1.d.ipv6 THEN Decide(w1, r, k, currentTime) ELSE w1)
        /\ seen' = [x \in DOMAIN seen |->
                       IF /\ x[1] = t.fqdn /\ x[2] = fam
                          /\ \E i \in 1..Len(answer.addr) : answer.addr[i].address = x[3]
                          /\ q.T > seen[x]
                       THEN q.T ELSE seen[x]]
        /\ UNCHANGED <<env, build, dbClient, currentTime, dbItems, dbConfig, stagedServices, nreq, gets>>

\* the callback of docuClient.put for the item of one resolution
PutDone(r, k, ok) ==
    LET t == req[r].tasks[k]
        w1 == [World EXCEPT !.rq[r].tasks[k].put = IF ok THEN "ok" ELSE "failed",
                            !.rq[r].tasks[k].item = NoItem]
    IN  /\ t.put = "sent"
        /\ dbItems' = IF ok THEN [dbItems EXCEPT ![t.fqdn] = t.item] ELSE dbItems
        /\ Commit(IF t.pc # "put" THEN w1
                  ELSE IF ok THEN Complete(Respond(w1, r, k, currentTime), r)
                  ELSE LET w2 == [w1 EXCEPT !.rq[r].tasks[k].pc = "failed"]
                       IN  IF w2.rq[r].pc = "walk" THEN Answer501(w2, r) ELSE w2)
        /\ UNCHANGED <<env, build, dbClient, currentTime, dbConfig, stagedServices, nreq, gets, seen>>

(***************************************************************************)
(* The config entry point                                                  *)
(***************************************************************************)
\* JSON.parse(text), for texts without escapes, fractions and exponents:
\* each operator answers [ok, val, next] with next the position after what it
\* read
SyntaxError == [ok |-> FALSE, val |-> Undefined, next |-> 0]
Parsed(val, next) == [ok |-> TRUE, val |-> val, next |-> next]

RECURSIVE SkipSpace(_, _)
SkipSpace(s, i) == IF i <= Len(s) /\ s[i] = " " THEN SkipSpace(s, i + 1) ELSE i

\* the characters of a string up to its closing quote
RECURSIVE ScanString(_, _, _)
ScanString(s, i, acc) ==
    IF i > Len(s) THEN SyntaxError
    ELSE IF s[i] = "\"" THEN Parsed(acc, i + 1)
    ELSE ScanString(s, i + 1, Append(acc, s[i]))

\* a property name as the object key it becomes
RECURSIVE Name(_)
Name(chars) == IF chars = <<>> THEN "" ELSE Head(chars) \o Name(Tail(chars))

RECURSIVE ScanDigits(_, _)
ScanDigits(s, i) == IF i <= Len(s) /\ s[i] \in Digits THEN ScanDigits(s, i + 1) ELSE i

\* -? (0 | [1-9][0-9]*)
ParseNumber(s, i) ==
    LET first == IF s[i] = "-" THEN i + 1 ELSE i
        last == ScanDigits(s, first)
        n == DecimalValue(SubSeq(s, first, last - 1), 1, 0)
    IN  IF last = first \/ (last - first > 1 /\ s[first] = "0") THEN SyntaxError
        ELSE Parsed(Num(IF s[i] = "-" THEN -n ELSE n), last)

ParseLiteral(s, i, word, val) ==
    IF i + Len(word) - 1 <= Len(s) /\ SubSeq(s, i, i + Len(word) - 1) = word
    THEN Parsed(val, i + Len(word))
    ELSE SyntaxError

RECURSIVE ParseValue(_, _)
RECURSIVE ParseMembers(_, _, _)
RECURSIVE ParseElements(_, _, _)
\* "name" : value (, "name" : value)* }   -- a repeated name keeps its place
\* and takes the later value
ParseMembers(s, i, acc) ==
    LET j == SkipSpace(s, i)
    IN  IF j > Len(s) \/ s[j] # "\"" THEN SyntaxError
        ELSE LET k == ScanString(s, j + 1, <<>>)
                 c == SkipSpace(s, k.next)
             IN  IF ~k.ok \/ c > Len(s) \/ s[c] # ":" THEN SyntaxError
                 ELSE LET v == ParseValue(s, c + 1)
                          e == SkipSpace(s, v.next)
                          kv == Assign(acc, Name(k.val), v.val)
                      IN  IF ~v.ok \/ e > Len(s) THEN SyntaxError
                          ELSE IF s[e] = "," THEN ParseMembers(s, e + 1, kv)
                          ELSE IF s[e] = "}" THEN Parsed(Obj(kv), e + 1)
                          ELSE SyntaxError
\* value (, value)* ]
ParseElements(s, i, acc) ==
    LET v == ParseValue(s, i)
        e == SkipSpace(s, v.next)
    IN  IF ~v.ok \/ e > Len(s) THEN SyntaxError
        ELSE IF s[e] = "," THEN ParseElements(s, e + 1, Append(acc, v.val))
        ELSE IF s[e] = "]" THEN Parsed(Arr(Append(acc, v.val)), e + 1)
        ELSE SyntaxError
ParseValue(s, i) ==
    LET j == SkipSpace(s, i)
        k == SkipSpace(s, j + 1)
    IN  IF j > Len(s) THEN SyntaxError
        ELSE IF s[j] = "{"
        THEN IF k <= Len(s) /\ s[k] = "}" THEN Parsed(Obj(<<>>), k + 1)
             ELSE ParseMembers(s, j + 1, <<>>)
        ELSE IF s[j] = "["
        THEN IF k <= Len(s) /\ s[k] = "]" THEN Parsed(Arr(<<>>), k + 1)
             ELSE ParseElements(s, j + 1, <<>>)
        ELSE IF s[j] = "\""
        THEN LET str == ScanString(s, j + 1, <<>>)
             IN  IF str.ok THEN Parsed(Str(str.val), str.next) ELSE SyntaxError
        ELSE IF s[j] \in Digits \cup {"-"} THEN ParseNumber(s, j)
        ELSE IF s[j] = "n" THEN ParseLiteral(s, j, <<"n", "u", "l", "l">>, Null)
        ELSE IF s[j] = "t" THEN ParseLiteral(s, j, <<"t", "r", "u", "e">>, Bool(TRUE))
        ELSE IF s[j] = "f" THEN ParseLiteral(s, j, <<"f", "a", "l", "s", "e">>, Bool(FALSE))
        ELSE SyntaxError

\* try { configBody = JSON.parse(event.body) } catch (err) {...}
JSONparse(text) ==
    LET r == ParseValue(text, 1)
    IN  IF r.ok /\ SkipSpace(text, r.next) > Len(text)
        THEN [ok |-> TRUE, val |-> r.val]
        ELSE [ok |-> FALSE, val |-> Undefined]

\* qs != null && QS_KEY_PARAM in qs && secret == qs[QS_KEY_PARAM]
KeyAcceptedMutAnyKey(qs) == ~qs.null /\ qs.key.p

KeyAccepted(qs) == ~qs.null /\ qs.key.p /\ qs.key.raw = Secret

Error403 == [status |-> 403, kind |-> "error", lines |-> <<>>, doc |-> Undefined]
Json200(payload) == [status |-> 200, kind |-> "json", lines |-> <<>>, doc |-> payload]
ReplyMutDropsLedger(w, r, out) ==
    [w EXCEPT !.rq[r].pc = "done", !.rq[r].out = out, !.ld = [f \in Fqdns |-> NoItem]]

Reply(w, r, out) == [w EXCEPT !.rq[r].pc = "done", !.rq[r].out = out]

\* exports.handler routed to configHandler, up to its first suspension: the
\* key check, then GET (promise chain only: the async build has no GET case)
\* or POST with its body checks, then the store call
StartConfig(t, c) ==
    LET r == nreq + 1
        client == ClientOf(MainStage, stagedServices # 0)
        w0 == [World EXCEPT !.rq[r].T = t, !.rq[r].cfg = c,
                            !.rq[r].stage = MainStage.stage,
                            !.rq[r].table = MainStage.table,
                            !.rq[r].tableName = client]
        configBody == JSONparse(c.body.raw)
        w1 == IF ~KeyAccepted(c.qs) THEN Reply(w0, r, Error403)
              ELSE IF c.method = "GET" /\ build = "promise"
              THEN [w0 EXCEPT !.rq[r].pc = "cget", !.rq[r].store = 1]
              ELSE IF c.method = "POST"
              THEN IF ~c.body.p THEN Reply(w0, r, Error501)
                   ELSE IF ~configBody.ok THEN Reply(w0, r, Error501)
                   ELSE IF ~IsObjectType(configBody.val) THEN Reply(w0, r, Error501)
                   ELSE [w0 EXCEPT !.rq[r].pc = "cput",
                                   !.rq[r].body = configBody.val,
                                   !.rq[r].had = (stagedServices # 0),
                                   !.rq[r].cput = "sent",
                                   !.rq[r].store = 1]
              ELSE Reply(w0, r, Error501)
    IN  /\ nreq < Budget
        /\ t >= currentTime
        /\ nreq > 0 => req[nreq].pc = "done"
        /\ currentTime' = t
        /\ nreq' = r
        /\ dbClient' = IF build = "promise" THEN client ELSE dbClient
        /\ Commit(w1)
        /\ UNCHANGED <<env, build, dbItems, dbConfig, stagedServices, gets, seen>>

\* configHandler GET: getConfig answers
ConfigGetReply(r, ok) ==
    LET cfg == getConfig(ok, dbConfig)
    IN  /\ req[r].pc = "cget"
        /\ Commit(Reply(World, r, IF cfg.err THEN Error501 ELSE Json200(cfg.val)))
        /\ UNCHANGED <<env, build, dbClient, currentTime, dbItems, dbConfig, stagedServices, nreq,
                       gets, seen>>

\* configHandler POST: the callback of docuClient.put for the configuration.
\* On success the service takes the new configuration, or is built with it;
\* the async build, when it had no service, builds one and then calls
\* fqdnServiceFactory
PutConfigReplyMutIgnoresError(r, ok) ==
    LET q == req[r]
        w0 == [World EXCEPT !.rq[r].cput = IF ok THEN "ok" ELSE "failed"]
        fs == Len(services) + 1
        built == [w0 EXCEPT !.sv = Append(services,
                     [serviceConfig |-> q.body, responseBuffer |-> EmptyBuffer,
                      dbClient |-> q.tableName])]
        staged == IF build = "promise" THEN stagedServices # 0 ELSE q.had
    IN  /\ q.pc = "cput"
        /\ dbConfig' = IF ok THEN q.body ELSE dbConfig
        /\ IF staged
           THEN /\ Commit(Reply([w0 EXCEPT !.sv[stagedServices].serviceConfig = q.body],
                                r, IF ok THEN Json200(q.body) ELSE Error501))
                /\ UNCHANGED stagedServices
           ELSE /\ stagedServices' = fs
                /\ Commit(IF build = "promise" \/ ~ok
                          THEN Reply(built, r, IF ok THEN Json200(q.body) ELSE Error501)
                          ELSE [built EXCEPT !.rq[r].pc = "cfac", !.rq[r].store = 2])
        /\ UNCHANGED <<env, build, dbClient, currentTime, dbItems, nreq, gets, seen>>

PutConfigReplyMutStagesStored(r, ok) ==
    LET q == req[r]
        w0 == [World EXCEPT !.rq[r].cput = IF ok THEN "ok" ELSE "failed"]
        fs == Len(services) + 1
        built == [w0 EXCEPT !.sv = Append(services,
                     [serviceConfig |-> dbConfig, responseBuffer |-> EmptyBuffer,
                      dbClient |-> q.tableName])]
        staged == IF build = "promise" THEN stagedServices # 0 ELSE q.had
    IN  /\ q.pc = "cput"
        /\ dbConfig' = IF ok THEN q.body ELSE dbConfig
        /\ IF ~ok
           THEN /\ Commit(Reply(w0, r, Error501))
                /\ UNCHANGED stagedServices
           ELSE IF staged
           THEN /\ Commit(Reply([w0 EXCEPT !.sv[stagedServices].serviceConfig = q.body],
                                r, Json200(q.body)))
                /\ UNCHANGED stagedServices
           ELSE /\ stagedServices' = fs
                /\ Commit(IF build = "promise" THEN Reply(built, r, Json200(q.body))
                          ELSE [built EXCEPT !.rq[r].pc = "cfac", !.rq[r].store = 2])
        /\ UNCHANGED <<env, build, dbClient, currentTime, dbItems, nreq, gets, seen>>

PutConfigReply(r, ok) ==
    LET q == req[r]
        w0 == [World EXCEPT !.rq[r].cput = IF ok THEN "ok" ELSE "failed"]
        fs == Len(services) + 1
        built == [w0 EXCEPT !.sv = Append(services,
                     [serviceConfig |-> q.body, responseBuffer |-> EmptyBuffer,
                      dbClient |-> q.tableName])]
        staged == IF build = "promise" THEN stagedServices # 0 ELSE q.had
    IN  /\ q.pc = "cput"
        /\ dbConfig' = IF ok THEN q.body ELSE dbConfig
        /\ IF ~ok
           THEN /\ Commit(Reply(w0, r, Error501))
                /\ UNCHANGED stagedServices
           ELSE IF staged
           THEN /\ Commit(Reply([w0 EXCEPT !.sv[stagedServices].serviceConfig = q.body],
                                r, Json200(q.body)))
                /\ UNCHANGED stagedServices
           ELSE /\ stagedServices' = fs
                /\ Commit(IF build = "promise" THEN Reply(built, r, Json200(q.body))
                          ELSE [built EXCEPT !.rq[r].pc = "cfac", !.rq[r].store = 2])
        /\ UNCHANGED <<env, build, dbClient, currentTime, dbItems, nreq, gets, seen>>

\* configHandler POST of the async build, no service staged: getConfig of
\* fqdnServiceFactory answers; the service it builds replaces the staged one
\* and control leaves the switch for the final response501
FactoryReply(r, ok) ==
    LET cfg == getConfig(ok, dbConfig)
        fs == Len(services) + 1
        built == [World EXCEPT !.sv = Append(services,
                     [serviceConfig |-> cfg.val, responseBuffer |-> EmptyBuffer,
                      dbClient |-> req[r].table])]
    IN  /\ req[r].pc = "cfac"
        /\ IF cfg.err
           THEN /\ Commit(Reply(World, r, Error501))
                /\ UNCHANGED stagedServices
           ELSE /\ stagedServices' = fs
                /\ Commit(Reply(built, r, Error501))
        /\ UNCHANGED <<env, build, dbClient, currentTime, dbItems, dbConfig, nreq, gets, seen>>

ReqIds == DOMAIN req
TaskIds(r) == 1..Len(req[r].tasks)

Next ==
    \/ \E t \in env.times, qs \in env.qs : StartFeed(t, qs)
    \/ \E r \in ReqIds, ok \in BOOLEAN : GetConfigReply(r, ok)
    \/ \E r \in ReqIds : \E k \in TaskIds(r), ok \in BOOLEAN : GetReply(r, k, ok)
    \/ \E r \in ReqIds : \E k \in TaskIds(r), fam \in Families :
          \E answer \in env.dns[fam] : DnsReply(r, k, fam, answer)
    \/ \E r \in ReqIds : \E k \in TaskIds(r), ok \in BOOLEAN : PutDone(r, k, ok)

Spec == Init /\ [][Next]_vars

\* A process whose pass can fail while a sibling resolution is still in
\* flight, and which is then sent another request: two Request leaves, and
\* MaxReqOverlap invocations.
OverlapEnv ==
    [builds |-> {"promise", "async"},
     items |-> {NoItem},
     tpls |-> {TplTwice},
     dns |-> [fam \in Families |->
                 IF fam = "ipv4" THEN {DnsOk(<<Rec(A1, <<1>>)>>)} ELSE Resolver(fam)],
     qs |-> {Qs(<<"json">>, Absent)},
     times |-> {0, MaxTime},
     reqs |-> MaxReqOverlap, reqsWide |-> MaxReqOverlap]

InitOverlap ==
    /\ env = OverlapEnv
    /\ InitProcess

SpecOverlap == InitOverlap /\ [][Next]_vars

\* A process that resolves one FQDN in consecutive requests of span 2, the
\* resolver answering the same record each time, on a table that is empty or
\* holds the address with a validUntil of one second ago.
RepeatEnv ==
    [builds |-> {"promise", "async"},
     items |-> {NoItem, Item(<< <<A1, -1>> >>, <<>>)},
     tpls |-> {TplOne},
     dns |-> [fam \in Families |->
                 IF fam = "ipv4" THEN {DnsOk(<<Rec(A1, <<1>>)>>)} ELSE {DnsError}],
     qs |-> {Qs(<<"json">>, NumParam(2))},
     times |-> 0..MaxTime,
     reqs |-> MaxReq, reqsWide |-> MaxReq]

InitRepeat ==
    /\ env = RepeatEnv
    /\ InitProcess

SpecRepeat == InitRepeat /\ [][Next]_vars

\* A process sent feed requests with every shape of query string: none at all
\* (null), v absent or one of ipv4 / ipv6 / json, span absent or one of
\* SpanTexts.  One FQDN, both families answered.
SpanTexts ==
    {<<"2">>, <<"1", "0">>, <<"0", "2">>, <<" ", "2">>, <<"-", "1">>,
     <<"0">>, <<>>, <<"a">>, <<"2", "a">>}
QueryEnv ==
    [builds |-> {"promise", "async"},
     items |-> {NoItem},
     tpls |-> {TplOne},
     dns |-> [fam \in Families |->
                 IF fam = "ipv4" THEN {DnsOk(<<Rec(A1, <<1>>)>>)}
                 ELSE {DnsOk(<<Rec(B1, <<2>>)>>)}],
     qs |-> {NullQs} \cup {Qs(v, span) : v \in {NoV, <<"ipv4">>, <<"ipv6">>, <<"json">>},
                                         span \in {Absent} \cup {Param(x) : x \in SpanTexts}},
     times |-> {0},
     reqs |-> MaxReqWide, reqsWide |-> MaxReqWide]

InitQuery ==
    /\ env = QueryEnv
    /\ InitProcess

SpecQuery == InitQuery /\ [][Next]_vars

\* A process sent feed requests and requests to the config entry point, on a
\* table whose configuration item may be missing or malformed.
ConfigRequests ==
    {Cfg("POST", KeyQs(Param(Secret)), body) :
        body \in {Absent} \cup {Param(x) : x \in {BodyOne, BodyTwo, BodyCut, BodyString,
                                                  BodyNumber, BodyNull, BodyArray}}}
    \cup {Cfg(method, qs, Param(BodyTwo)) :
            method \in {"GET", "POST"},
            qs \in {NullKeyQs, KeyQs(Absent), KeyQs(Param(<<"t">>)), KeyQs(Param(<<>>))}}
    \cup {Cfg("GET", KeyQs(Param(Secret)), Absent),
          Cfg("DELETE", KeyQs(Param(Secret)), Absent)}
ConfigEnv ==
    [builds |-> {"promise", "async"},
     items |-> {NoItem},
     tpls |-> {TplOne, NoConfigItem, Undefined, Str(Static), Null},
     dns |-> [fam \in Families |->
                 IF fam = "ipv4" THEN {DnsOk(<<Rec(A1, <<1>>)>>)} ELSE {DnsError}],
     qs |-> {Qs(<<"json">>, Absent)},
     cfgs |-> ConfigRequests,
     times |-> {0},
     reqs |-> MaxReqConfig, reqsWide |-> MaxReqConfig]

InitConfig ==
    /\ env = ConfigEnv
    /\ InitProcess

NextConfig ==
    \/ Next
    \/ \E t \in env.times, c \in env.cfgs : StartConfig(t, c)
    \/ \E r \in ReqIds, ok \in BOOLEAN : ConfigGetReply(r, ok)
    \/ \E r \in ReqIds, ok \in BOOLEAN : PutConfigReply(r, ok)
    \/ \E r \in ReqIds, ok \in BOOLEAN : FactoryReply(r, ok)

SpecConfig == InitConfig /\ [][NextConfig]_vars

(***************************************************************************)
(* Vocabulary of the properties                                            *)
(***************************************************************************)
Task(r, k) == req[r].tasks[k]

\* the addresses a leaf response lists for a family (none when the key is absent)
AddrsIn(resp, fam) ==
    LET x == GetProp(resp, fam)
    IN  IF x.t = "arr" THEN [i \in 1..Len(x.v) |-> x.v[i].v] ELSE <<>>

SeqToSet(q) == {q[i] : i \in 1..Len(q)}

\* the addresses of a resolver answer
Returned(answer) == {answer.addr[i].address : i \in 1..Len(answer.addr)}

\* selectValid as the specification words it: the addresses, in ledger order,
\* whose validUntil is strictly greater than T - S
SelectValid(L, S, T) ==
    LET keep == SelectSeq(L, LAMBDA e : e[2] > T - S)
    IN  [i \in 1..Len(keep) |-> keep[i][1]]

\* the request being served: the invocation started last
Served == req[nreq]

\* resolution k of request r builds its response in this step
Responds(r, k) ==
    /\ k <= Len(req[r].tasks)
    /\ req[r].tasks[k].pc # "done"
    /\ req'[r].tasks[k].pc = "done"

\* lookup fam of resolution k of request r is answered in this step
Answered(r, k, fam) ==
    /\ k <= Len(req[r].tasks)
    /\ ~req[r].tasks[k].d[fam]
    /\ req'[r].tasks[k].d[fam]

\* a Request leaf as the data model defines it: an object whose fqdn is a
\* string of the FQDN pattern
IsRequestLeaf(x) ==
    /\ x.t = "obj"
    /\ \E i \in 1..Len(x.v) :
          x.v[i][1] = "fqdn" /\ x.v[i][2].t = "str" /\ basicFqdnRegex(x.v[i][2].v)

RECURSIVE HasRequestLeaf(_)
HasRequestLeaf(x) ==
    \/ IsRequestLeaf(x)
    \/ /\ x.t \in {"obj", "arr"}
       /\ \E i \in 1..Len(x.v) : HasRequestLeaf(Child(x, i))

\* the response request r built for the leaf at path
RespAt(r, path) ==
    IF \E k \in TaskIds(r) : Task(r, k).path = path
    THEN Task(r, CHOOSE k \in TaskIds(r) : Task(r, k).path = path).resp
    ELSE Undefined

\* the template with every Request leaf replaced by the response built for it
RECURSIVE Transformed(_, _, _)
Transformed(x, path, r) ==
    IF IsRequestLeaf(x) THEN RespAt(r, path)
    ELSE IF x.t = "obj"
    THEN Obj([i \in 1..Len(x.v) |-> <<x.v[i][1], Transformed(x.v[i][2], Append(path, i), r)>>])
    ELSE IF x.t = "arr"
    THEN Arr([i \in 1..Len(x.v) |-> Transformed(x.v[i], Append(path, i), r)])
    ELSE x

\* a ResolvedAddresses value: an object with at most the keys ipv4 and ipv6,
\* each a list of address strings
IsResolvedAddresses(x) ==
    /\ x.t = "obj"
    /\ \A i \in 1..Len(x.v) :
          /\ x.v[i][1] \in Families
          /\ x.v[i][2].t = "arr"
          /\ \A j \in 1..Len(x.v[i][2].v) : x.v[i][2].v[j].t = "str"

(***************************************************************************)
(* C1  Trailing-window feed: the response a Request leaf of f gets at time *)
(* T with span S lists every address the resolver returned for f in a      *)
(* request made at t with T - t < S.  Stated for the step that builds the  *)
(* response; the code breaks it.                                           *)
(***************************************************************************)
C1_TrailingWindow ==
    [][\A r \in ReqIds : \A k \in 1..Len(req'[r].tasks) :
          Responds(r, k) =>
             \A fam \in Families : \A a \in AllAddr :
                LET t == seen'[<<req'[r].tasks[k].fqdn, fam, a>>]
                IN  (t >= 0 /\ t <= req'[r].T /\ req'[r].T - t < req'[r].span)
                       => a \in SeqToSet(AddrsIn(req'[r].tasks[k].resp, fam))]_vars

(***************************************************************************)
(* C2  Freshness window: the response of a leaf lists, per family, exactly *)
(* the ledger's addresses whose validUntil is strictly greater than T - S, *)
(* T the time of the request being served, and the buffer grows by exactly *)
(* that list.                                                              *)
(***************************************************************************)
C2_FreshnessWindow ==
    [][\A r \in ReqIds : \A k \in 1..Len(req'[r].tasks) :
          Responds(r, k) =>
             \A fam \in Families :
                LET t == req'[r].tasks[k]
                    fs == req'[r].fs
                    sel == SelectValid(localDict'[t.fqdn][fam], req'[r].span, Served'.T)
                IN  /\ AddrsIn(t.resp, fam) = sel
                    /\ services'[fs].responseBuffer[fam]
                          = services[fs].responseBuffer[fam] \o sel]_vars

\* scenario 3: span 1, an address cached with validUntil = now - 10, the
\* resolver returns no record for the family: the leaf and the buffer have
\* no address of that family
C2_Witness ==
    \E r \in ReqIds : \E k \in TaskIds(r) :
       /\ Task(r, k).pc = "done"
       /\ req[r].span = 1
       /\ Task(r, k).ret.ipv4 = DnsOk(<<>>)
       /\ HasKey(localDict[Task(r, k).fqdn].ipv4, A2)
       /\ ValueOf(localDict[Task(r, k).fqdn].ipv4, A2) = req[r].T - 10
       /\ AddrsIn(Task(r, k).resp, "ipv4") = <<>>
       /\ services[req[r].fs].responseBuffer.ipv4 = <<>>

(***************************************************************************)
(* C3  Every address a successful lookup returned during a resolveDns call *)
(* is part of the response of that call.  The code breaks it.              *)
(***************************************************************************)
C3_ResolvedInResponse ==
    \A r \in ReqIds : \A k \in TaskIds(r) :
       Task(r, k).pc = "done" =>
          \A fam \in Families :
             Returned(Task(r, k).ret[fam]) \subseteq SeqToSet(AddrsIn(Task(r, k).resp, fam))

(***************************************************************************)
(* C4  Single fetch per process: safeGetById(f) is issued at most once for *)
(* each FQDN f.  The code breaks it.                                       *)
(***************************************************************************)
C4_SingleFetch == \A f \in Fqdns : gets[f] <= 1

(***************************************************************************)
(* C5  Write-avoidance: a resolution whose lookups found no update-worthy  *)
(* address issues no putItem.                                              *)
(***************************************************************************)
C5_WriteAvoidance ==
    \A r \in ReqIds : \A k \in TaskIds(r) :
       LET t == Task(r, k)
       IN  (t.d.ipv4 /\ t.d.ipv6 /\ t.upd.ipv4 = <<>> /\ t.upd.ipv6 = <<>>)
              => (t.nput = 0 /\ t.put = "none")

\* a resolution whose lookups returned addresses, all fresh in the ledger
C5_Witness ==
    \E r \in ReqIds : \E k \in TaskIds(r) :
       LET t == Task(r, k)
       IN  /\ t.pc = "done"
           /\ Returned(t.ret.ipv4) # {}
           /\ t.upd.ipv4 = <<>> /\ t.upd.ipv6 = <<>>
           /\ t.nput = 0

(***************************************************************************)
(* C6  A resolution that found an update-worthy address issues exactly one *)
(* putItem, and the item is the entire in-memory ledger pair of the FQDN   *)
(* at that moment.                                                         *)
(***************************************************************************)
C6_WholeLedgerWritten ==
    [][\A r \in ReqIds : \A k \in 1..Len(req'[r].tasks) :
          LET t == req'[r].tasks[k]
          IN  /\ t.nput <= 1
              /\ (t.d.ipv4 /\ t.d.ipv6 /\ (t.upd.ipv4 # <<>> \/ t.upd.ipv6 # <<>>))
                    => t.nput = 1
              /\ (k <= Len(req[r].tasks) /\ req[r].tasks[k].nput < t.nput)
                    => /\ t.put = "sent"
                       /\ t.item = Item(localDict'[t.fqdn].ipv4, localDict'[t.fqdn].ipv6)]_vars

\* a write in flight whose item holds an entry that was not update-worthy
C6_Witness ==
    \E r \in ReqIds : \E k \in TaskIds(r) :
       LET t == Task(r, k)
       IN  /\ t.put = "sent"
           /\ Len(t.item.ipv4) > Len(t.upd.ipv4)
           /\ t.upd.ipv4 # <<>>

(***************************************************************************)
(* C7  A failed putItem makes the pass fail: the request is answered 501,  *)
(* never as if it had succeeded.  The async build breaks it.               *)
(***************************************************************************)
C7_WriteFailureSurfaces ==
    \A r \in ReqIds :
       (req[r].pc = "done" /\ \E k \in TaskIds(r) : Task(r, k).put = "failed")
          => req[r].out.status = 501

(***************************************************************************)
(* C8  isUpdateWorthy: an observed address is reported update-worthy, and  *)
(* the ledger set to its observed validUntil, exactly when the address is  *)
(* absent from the ledger or its stored validUntil is strictly less than   *)
(* now - span, now the time of the request being served; otherwise the     *)
(* ledger entry is left as it was.                                         *)
(***************************************************************************)
C8_UpdateWorthy ==
    [][\A r \in ReqIds : \A k \in 1..Len(req'[r].tasks) : \A fam \in Families :
          Answered(r, k, fam) =>
             LET t == req'[r].tasks[k]
                 pre == localDict[t.fqdn][fam]
                 post == localDict'[t.fqdn][fam]
                 now == Served.T
                 observed == LocalEntries(t.ret[fam].addr, 1, <<>>, now)
             IN  \A a \in AllAddr :
                    LET worthy ==
                           /\ HasKey(observed, a)
                           /\ ~HasKey(pre, a) \/ ValueOf(pre, a) < now - req[r].span
                    IN  IF worthy
                        THEN /\ HasKey(post, a)
                             /\ ValueOf(post, a) = ValueOf(observed, a)
                             /\ <<a, ValueOf(observed, a)>> \in SeqToSet(t.upd[fam])
                        ELSE /\ HasKey(post, a) = HasKey(pre, a)
                             /\ HasKey(pre, a) => ValueOf(post, a) = ValueOf(pre, a)
                             /\ a \notin Keys(t.upd[fam])]_vars

\* a stale entry loaded from the store is refreshed, a new address is added,
\* and this as the request's own lookup answers at its time T
C8_Witness ==
    \E r \in ReqIds : \E k \in TaskIds(r) :
       LET t == Task(r, k)
           L == localDict[t.fqdn].ipv4
       IN  /\ t.d.ipv4 /\ ~t.d.ipv6
           /\ req[r].span = 1
           /\ req[r].T = 2
           /\ Keys(t.upd.ipv4) = {A1, A2}
           /\ L = << <<A1, req[r].T + DEFAULT_TTL>>, <<A2, req[r].T + DEFAULT_TTL>> >>

(***************************************************************************)
(* C9  The document a successful pass returns is the template with every   *)
(* Request leaf replaced by the ResolvedAddresses built for it, every      *)
(* other node verbatim.                                                    *)
(***************************************************************************)
C9_Transformation ==
    \A r \in ReqIds :
       (req[r].pc = "done" /\ req[r].out.status = 200) =>
          /\ req[r].doc = Transformed(req[r].tmpl, <<>>, r)
          /\ req[r].out.kind = "json" => req[r].out.doc = req[r].doc
          /\ \A k \in TaskIds(r) : IsResolvedAddresses(Task(r, k).resp)

\* scenario 1: {A: {fqdn: f}}, ipv4 answer [(a, ttl)], no ipv6 record, default
\* span, empty ledger -> {A: {ipv4: [a]}}, buffers [a] and []
\* (and scenario 4 holds in every state of C9_Transformation with TplMixed)
C9_Witness ==
    \E r \in ReqIds :
       /\ req[r].pc = "done"
       /\ req[r].tmpl = TplOne
       /\ req[r].span = DEFAULT_SPAN
       /\ localDict[F1] = Item(<< <<A1, req[r].T + 1>> >>, <<>>)
       /\ req[r].out.kind = "json"
       /\ req[r].out.doc = Obj(<< <<"A", Obj(<< <<"ipv4", Arr(<<Str(A1)>>)>> >>)>> >>)
       /\ services[req[r].fs].responseBuffer = [ipv4 |-> <<A1>>, ipv6 |-> <<>>]

(***************************************************************************)
(* C10  Tree fidelity: for a document without Request leaf the walk        *)
(* completes successfully, returns a document equal to its input and does  *)
(* no lookup and no store access.  The code breaks it on null.             *)
(***************************************************************************)
C10_TreeFidelity ==
    \A r \in ReqIds :
       (req[r].pc \in {"walk", "done"} /\ ~HasRequestLeaf(req[r].tmpl)) =>
          /\ req[r].pc = "done"
          /\ req[r].out.status = 200
          /\ req[r].doc = req[r].tmpl
          /\ req[r].tasks = <<>>

(***************************************************************************)
(* C11  Non-mutation: no step of a pass, successful or failed, changes the *)
(* serviceConfig of a service, and every pass starts its walk from a tree  *)
(* equal to that template.                                                 *)
(***************************************************************************)
C11_NonMutation ==
    [][/\ \A fs \in 1..Len(services) :
             services'[fs].serviceConfig = services[fs].serviceConfig
       /\ \A r \in ReqIds :
             (req[r].pc \in {"new", "cfg"} /\ req'[r].pc \in {"walk", "done"}
                 /\ req'[r].fs # 0)
                => /\ services'[req'[r].fs].serviceConfig = dbConfig
                   /\ req'[r].tmpl = dbConfig
                   /\ req'[r].doc = dbConfig]_vars

\* a second pass has been answered from the pristine template after the first
\* pass rewrote its own tree
C11_Witness ==
    /\ nreq = 2
    /\ req[1].doc # req[1].tmpl
    /\ req[2].pc = "done" /\ req[2].out.status = 200
    /\ req[2].tmpl = TplOne
    /\ req[2].doc # req[2].tmpl
    /\ services[req[2].fs].serviceConfig = TplOne

(***************************************************************************)
(* C12  A leaf object whose fqdn value does not match the FQDN pattern is  *)
(* not a Request: the pass does not fail because of it, the leaf is left   *)
(* as it was in the returned document, and no resolution (store read, DNS  *)
(* lookup, store write) is started for it.  The code breaks it when the    *)
(* value is null.                                                          *)
(***************************************************************************)
\* the paths of the objects of x that own an fqdn whose value does not match
RECURSIVE InvalidLeaves(_, _)
InvalidLeaves(x, path) ==
    IF x.t \notin {"obj", "arr"} THEN {}
    ELSE (IF GetProp(x, "fqdn").t # "undefined"
             /\ ~basicFqdnRegex(StringOf(GetProp(x, "fqdn")))
          THEN {path} ELSE {})
         \cup UNION {InvalidLeaves(Child(x, i), Append(path, i)) : i \in 1..Len(x.v)}

C12_InvalidLeafUntouched ==
    \A r \in ReqIds :
       (req[r].pc \in {"walk", "done"} /\ ~HasRequestLeaf(req[r].tmpl)) =>
          \A p \in InvalidLeaves(req[r].tmpl, <<>>) :
             /\ req[r].pc = "done" /\ req[r].out.status = 200
             /\ NodeAt(req[r].doc, p) = NodeAt(req[r].tmpl, p)
             /\ \A k \in TaskIds(r) : Task(r, k).path # p

(***************************************************************************)
(* C13  In the ResolvedAddresses built for a Request leaf the key ipv4     *)
(* (resp. ipv6) is present exactly when at least one ledger address of the *)
(* family has validUntil > T - S, and a present key holds a non-empty list.*)
(***************************************************************************)
C13_KeyPresence ==
    [][\A r \in ReqIds : \A k \in 1..Len(req'[r].tasks) :
          Responds(r, k) =>
             \A fam \in Families :
                LET t == req'[r].tasks[k]
                    qualifies == \E i \in 1..Len(localDict'[t.fqdn][fam]) :
                                    localDict'[t.fqdn][fam][i][2] > Served'.T - req'[r].span
                    x == GetProp(t.resp, fam)
                IN  /\ (x.t # "undefined") <=> qualifies
                    /\ x.t # "undefined" => (x.t = "arr" /\ Len(x.v) > 0)]_vars

\* a response with an ipv4 list and no ipv6 key, from an ipv4 ledger that also
\* holds an address outside the window
C13_Witness ==
    \E r \in ReqIds : \E k \in TaskIds(r) :
       /\ Task(r, k).pc = "done"
       /\ Task(r, k).resp = Obj(<< <<"ipv4", Arr(<<Str(A1)>>)>> >>)
       /\ Keys(localDict[Task(r, k).fqdn].ipv4) = {A1, A2}
       /\ localDict[Task(r, k).fqdn].ipv6 = <<>>

(***************************************************************************)
(* C14  When a pass is answered successfully, the flattened responseBuffer *)
(* of its service holds, per family, exactly the addresses (as a multiset) *)
(* of the lists at the Request leaves of the returned tree.  The code      *)
(* breaks it when a resolution of an earlier, failed pass is still in      *)
(* flight.                                                                 *)
(***************************************************************************)
Count(q, a) == Cardinality({i \in 1..Len(q) : q[i] = a})

\* occurrences of address a in the fam lists of the tree's Request leaves,
\* over the leaves k..n of request r
RECURSIVE CountInTree(_, _, _, _, _)
CountInTree(rq, r, k, fam, a) ==
    IF k > Len(rq[r].tasks) THEN 0
    ELSE Count(AddrsIn(NodeAt(rq[r].doc, rq[r].tasks[k].path), fam), a)
         + CountInTree(rq, r, k + 1, fam, a)

\* request r is answered 200 in this step
Succeeds(r) ==
    /\ req[r].pc # "done"
    /\ req'[r].pc = "done"
    /\ req'[r].out.status = 200

C14_BufferMatchesTree ==
    [][\A r \in ReqIds :
          Succeeds(r) =>
             \A fam \in Families : \A a \in AllAddr :
                Count(services'[req'[r].fs].responseBuffer[fam], a)
                   = CountInTree(req', r, 1, fam, a)]_vars

(***************************************************************************)
(* C15  The responseBuffer of a pass is the concatenation of the Request   *)
(* leaves' address lists in tree-walk order, whatever the order in which   *)
(* their reads and lookups complete.  The code appends in completion order.*)
(***************************************************************************)
\* the fam lists of the leaves k..n of request r, in walk order
RECURSIVE InWalkOrder(_, _, _, _)
InWalkOrder(rq, r, k, fam) ==
    IF k > Len(rq[r].tasks) THEN <<>>
    ELSE AddrsIn(rq[r].tasks[k].resp, fam) \o InWalkOrder(rq, r, k + 1, fam)

C15_WalkOrder ==
    [][\A r \in ReqIds :
          Succeeds(r) =>
             \A fam \in Families :
                services'[req'[r].fs].responseBuffer[fam] = InWalkOrder(req', r, 1, fam)]_vars

(***************************************************************************)
(* C16  A failed DNS lookup of one family counts as zero records of that   *)
(* family: its callback changes no ledger entry and reports nothing as     *)
(* update-worthy, the resolution goes on with what the other family found  *)
(* (write-back, response), and neither the resolution nor the request      *)
(* fails because of it.                                                    *)
(***************************************************************************)
Other(fam) == IF fam = "ipv4" THEN "ipv6" ELSE "ipv4"

C17_ReadFailureAbsorbed ==
    [][\A r \in ReqIds : \A k \in 1..Len(req'[r].tasks) :
          (k <= Len(req[r].tasks) /\ req[r].tasks[k].pc = "get"
              /\ req'[r].tasks[k].pc # "get") =>
             LET t1 == req'[r].tasks[k]
                 stored == dbItems[t1.fqdn]
             IN  /\ t1.pc = "dns"
                 /\ t1.got \in {"item", "lost", "absent"}
                 /\ t1.got \in {"lost", "absent"} =>
                       localDict'[t1.fqdn] = Item(<<>>, <<>>)
                 /\ t1.got = "item" =>
                       localDict'[t1.fqdn] = Item(stored.ipv4, stored.ipv6)
                 /\ req'[r].pc = req[r].pc
                 /\ req'[r].out = req[r].out]_vars

\* the read of a stored item failed: the resolution ran on an empty ledger,
\* found its address update-worthy (redundantly), wrote back and answered 200
C17_Witness ==
    \E r \in ReqIds : \E k \in TaskIds(r) :
       /\ Task(r, k).got = "lost"
       /\ Task(r, k).pc = "done"
       /\ Task(r, k).nput = 1
       /\ Keys(Task(r, k).upd.ipv4) = {A1}
       /\ ~HasKey(localDict[Task(r, k).fqdn].ipv4, A2)
       /\ Task(r, k).resp = Obj(<< <<"ipv4", Arr(<<Str(A1)>>)>> >>)
       /\ req[r].pc = "done" /\ req[r].out.status = 200

(***************************************************************************)
(* C18  Every validUntil a resolution stores in a ledger is the timestamp  *)
(* of the request the resolution belongs to plus the TTL attributed to the *)
(* record: the resolver's TTL when it is a non-zero number, 60 otherwise.  *)
(* The code uses the timestamp of the latest request instead.              *)
(***************************************************************************)
C18_ValidUntil ==
    [][\A r \in ReqIds : \A k \in 1..Len(req'[r].tasks) : \A fam \in Families :
          Answered(r, k, fam) =>
             LET t1 == req'[r].tasks[k]
                 pre == localDict[t1.fqdn][fam]
                 post == localDict'[t1.fqdn][fam]
                 addr == t1.ret[fam].addr
             IN  \A a \in AllAddr :
                    (HasKey(post, a) /\ (~HasKey(pre, a) \/ ValueOf(pre, a) # ValueOf(post, a)))
                       => \E i \in 1..Len(addr) :
                             /\ addr[i].address = a
                             /\ ValueOf(post, a)
                                   = req[r].T + (IF addr[i].ttl # <<>> /\ addr[i].ttl[1] # 0
                                                 THEN addr[i].ttl[1] ELSE 60)]_vars

(***************************************************************************)
(* C19  Repeat resolution is idempotent inside the window: when an FQDN    *)
(* resolved in one request is resolved again in a later request less than  *)
(* span seconds after it, with the same resolver answers and the same      *)
(* span, the second resolution changes no ledger entry, issues no store    *)
(* write and returns the response of the first.  The code breaks it.       *)
(***************************************************************************)
\* resolution k2 of request r2 repeats resolution k1 of request r1
Repeats(rq, r1, k1, r2, k2) ==
    /\ r1 < r2
    /\ rq[r1].tasks[k1].pc = "done"
    /\ rq[r1].tasks[k1].fqdn = rq[r2].tasks[k2].fqdn
    /\ rq[r1].span = rq[r2].span
    /\ rq[r2].T - rq[r1].T < rq[r2].span
    /\ rq[r2].tasks[k2].d.ipv4 /\ rq[r2].tasks[k2].d.ipv6
    /\ rq[r2].tasks[k2].ret = rq[r1].tasks[k1].ret

C19_RepeatIdempotent ==
    [][\A r2 \in ReqIds : \A k2 \in 1..Len(req'[r2].tasks) :
        \A r1 \in ReqIds : \A k1 \in 1..Len(req'[r1].tasks) :
          (Repeats(req', r1, k1, r2, k2) /\ \E fam \in Families : Answered(r2, k2, fam)) =>
             LET t == req'[r2].tasks[k2]
             IN  /\ localDict'[t.fqdn] = localDict[t.fqdn]
                 /\ t.upd = NoUpd
                 /\ t.nput = 0
                 /\ t.pc = "done"
                 /\ t.resp = req'[r1].tasks[k1].resp]_vars

(***************************************************************************)
(* C20  Ledger monotonicity: once the ledgers of an FQDN have been loaded  *)
(* from the store, no step removes an address from them, and only the      *)
(* callback of a successful lookup changes them.  The code breaks it when  *)
(* a second store read of the same FQDN answers.                           *)
(***************************************************************************)
C20_LedgerMonotone ==
    [][\A f \in Fqdns : localDict[f].has =>
          /\ localDict'[f].has
          /\ \A fam \in Families :
                /\ Keys(localDict[f][fam]) \subseteq Keys(localDict'[f][fam])
                /\ localDict'[f][fam] # localDict[f][fam] =>
                      \E r \in ReqIds : \E k \in 1..Len(req'[r].tasks) :
                         /\ Answered(r, k, fam)
                         /\ req'[r].tasks[k].fqdn = f
                         /\ ~req'[r].tasks[k].ret[fam].err]_vars

(***************************************************************************)
(* C21  Join point: in a resolution the write-back decision (and its       *)
(* putItem) and the selection that builds the response happen only after   *)
(* both lookups have answered, and the selection only after the putItem,   *)
(* when one was issued, has completed.  The async build selects while the  *)
(* write is in flight.                                                     *)
(***************************************************************************)
C21_JoinPoint ==
    \A r \in ReqIds : \A k \in TaskIds(r) :
       LET t == Task(r, k)
       IN  /\ (t.nput > 0 \/ t.put # "none" \/ t.pc \in {"put", "done"})
                 => (t.d.ipv4 /\ t.d.ipv6)
           /\ t.pc = "done" => t.put # "sent"

(***************************************************************************)
(* C22  Fan-in barrier: once a pass has returned to its caller (the        *)
(* request is answered, 200 or 501), none of its sub-resolutions takes a   *)
(* step any more (store read reply, lookup callback with its ledger merge, *)
(* putItem, append to the buffer).  The code breaks it.                    *)
(***************************************************************************)
C22_FanInBarrier ==
    [][\A r \in ReqIds :
          req[r].pc = "done" => req'[r].tasks = req[r].tasks]_vars

(***************************************************************************)
(* C23  Single timestamp: every ledger merge and every response selection  *)
(* made by a resolution of request r is computed with the timestamp r      *)
(* captured when it started, also when a later request has started in      *)
(* between.  The code computes them with the timestamp captured last.      *)
(***************************************************************************)
C23_SingleTimestamp ==
    [][\A r \in ReqIds : \A k \in 1..Len(req'[r].tasks) : \A fam \in Families :
          LET t1 == req'[r].tasks[k]
          IN  /\ Answered(r, k, fam) =>
                    localDict'[t1.fqdn][fam]
                       = MergeAnswer(t1.ret[fam], localDict[t1.fqdn][fam],
                                     req[r].span, req[r].T).dict
              /\ Responds(r, k) =>
                    AddrsIn(t1.resp, fam)
                       = SelectValid(localDict'[t1.fqdn][fam], req[r].span, req[r].T)]_vars

(***************************************************************************)
(* C24  All-or-nothing write-back: when the putItem of a resolution has    *)
(* failed, the in-memory ledger of its FQDN holds none of the resolution's *)
(* update-worthy entries unless the store holds it too, and the resolution *)
(* has built no response from them.  The code breaks it.                   *)
(***************************************************************************)
C24_AllOrNothing ==
    \A r \in ReqIds : \A k \in TaskIds(r) :
       LET t == Task(r, k)
       IN  t.put = "failed" =>
              /\ \A fam \in Families : \A i \in 1..Len(t.upd[fam]) :
                    LET a == t.upd[fam][i][1]
                        v == t.upd[fam][i][2]
                    IN  (HasKey(localDict[t.fqdn][fam], a)
                            /\ ValueOf(localDict[t.fqdn][fam], a) = v)
                           => /\ HasKey(dbItems[t.fqdn][fam], a)
                              /\ ValueOf(dbItems[t.fqdn][fam], a) = v
              /\ t.resp.t = "undefined"

\* what the span contract gives for each span parameter: its integer value
\* when it is a non-zero integer numeral, the default otherwise
SpanCases ==
    {<<Absent, 86400>>,
     <<Param(<<"2">>), 2>>, <<Param(<<"1", "0">>), 10>>, <<Param(<<"0", "2">>), 2>>,
     <<Param(<<" ", "2">>), 2>>, <<Param(<<"-", "1">>), -1>>,
     <<Param(<<"0">>), 86400>>, <<Param(<<>>), 86400>>,
     <<Param(<<"a">>), 86400>>, <<Param(<<"2", "a">>), 86400>>}

C26_OutputSelection ==
    \A r \in 1..nreq :
       LET q == req[r]
           buffer == services[q.fs].responseBuffer
       IN  (r = nreq /\ q.pc = "done" /\ q.out.status = 200) =>
              /\ (q.qs.null \/ q.qs.v = NoV \/ q.qs.v = <<"ipv4">>)
                    => (q.out.kind = "plain" /\ q.out.lines = buffer.ipv4)
              /\ (~q.qs.null /\ q.qs.v = <<"ipv6">>)
                    => (q.out.kind = "plain" /\ q.out.lines = buffer.ipv6)
              /\ q.out.kind = "json"
                    => (~q.qs.null /\ q.qs.v = <<"json">> /\ q.out.doc = q.doc)

\* what each body text that is a JSON object stands for
ObjectBodies ==
    {<<Param(BodyOne), Obj(<< <<"A", Obj(<< <<"fqdn", Str(F1)>> >>)>> >>)>>,
     <<Param(BodyTwo), Obj(<< <<"B", Obj(<< <<"fqdn", Str(F2)>> >>)>> >>)>>}

\* the bodies that are missing, not JSON, or JSON but not an object
MalformedBodies ==
    {Absent, Param(BodyCut), Param(BodyString), Param(BodyNumber), Param(BodyNull),
     Param(BodyArray)}

\* request r went to the config entry point
IsConfigRequest(q) == q.cfg.method # ""
\* its key parameter is missing or is not the stage secret
BadKey(q) == q.cfg.qs.null \/ ~q.cfg.qs.key.p \/ q.cfg.qs.key.raw # <<"s">>
\* request r starts in this step
Starts(r) == nreq' = r /\ nreq = r - 1

\* the step leaves the stored configuration and the staged services alone
ConfigUntouched ==
    /\ dbConfig' = dbConfig
    /\ stagedServices' = stagedServices
    /\ Len(services') = Len(services)
    /\ \A i \in 1..Len(services) : services'[i].serviceConfig = services[i].serviceConfig

(***************************************************************************)
(* C27  A POST to the config entry point with the right key and a JSON     *)
(* object as body, whose store write succeeds, is answered 200 with the    *)
(* submitted configuration, whether or not a service was staged, and       *)
(* serviceConfig is the submitted configuration until the next successful  *)
(* POST.  The code breaks it.                                              *)
(***************************************************************************)
C27_ConfigReplaced ==
    \A r \in 1..nreq : \A c \in ObjectBodies :
       LET q == req[r]
       IN  (q.cfg.method = "POST" /\ ~BadKey(q) /\ q.cfg.body = c[1] /\ q.cput = "ok") =>
              /\ stagedServices # 0
              /\ (\A r2 \in (r + 1)..nreq : req[r2].cput # "ok")
                    => services[stagedServices].serviceConfig = c[2]
              /\ q.pc = "done" => q.out = Json200(c[2])

(***************************************************************************)
(* C28  A configuration replace whose body is missing, is not parseable    *)
(* JSON or does not parse to a JSON object is answered with an error       *)
(* before any store write is attempted, and leaves the stored              *)
(* configuration and serviceConfig unchanged.  The code breaks it.         *)
(***************************************************************************)
C28_MalformedBodyRejected ==
    [][\A r \in ReqIds :
          (/\ Starts(r)
           /\ req'[r].cfg.method = "POST"
           /\ ~BadKey(req'[r])
           /\ req'[r].cfg.body \in MalformedBodies)
             => /\ req'[r].pc = "done"
                /\ req'[r].out = Error501
                /\ req'[r].store = 0
                /\ ConfigUntouched]_vars

(***************************************************************************)
(* C29  A request to the config entry point whose key parameter is missing *)
(* or differs from the stage secret is answered 403; it sends no           *)
(* configuration read or write to the store and changes no serviceConfig.  *)
(***************************************************************************)
C29_KeyRequired ==
    [][\A r \in ReqIds :
          (Starts(r) /\ IsConfigRequest(req'[r]) /\ BadKey(req'[r]))
             => /\ req'[r].pc = "done"
                /\ req'[r].out = Error403
                /\ req'[r].store = 0
                /\ req'[r].cput = "none"
                /\ ConfigUntouched]_vars

C29_Witness ==
    /\ nreq = 2
    /\ req[1].out.status = 200
    /\ stagedServices # 0
    /\ req[2].cfg.method = "POST"
    /\ req[2].cfg.qs = KeyQs(Param(<<"t">>))
    /\ req[2].cfg.body = Param(BodyTwo)
    /\ req[2].out.status = 403
    /\ dbConfig = TplOne

\* stored configuration items that are absent or lack a config object
MalformedConfigs == {NoConfigItem, Undefined, Str(Static), Null}

(***************************************************************************)
(* C30  When the stored configuration document is absent or lacks a nested *)
(* config object, fetching it for a feed request fails: the request is     *)
(* answered with an error, no service is cached and no resolution is       *)
(* started.  The code breaks it.                                           *)
(***************************************************************************)
C30_MalformedConfigFatal ==
    [][\A r \in ReqIds :
          (req[r].pc = "cfg" /\ req'[r].pc # "cfg" /\ dbConfig \in MalformedConfigs)
             => /\ req'[r].pc = "done"
                /\ req'[r].out = Error501
                /\ req'[r].tasks = <<>>
                /\ stagedServices' = 0
                /\ services' = services]_vars

\* request r, sent to the config entry point, takes a step
ConfigStep(r) == IsConfigRequest(req'[r]) /\ req'[r] # req[r]

(***************************************************************************)
(* C31  Replacing the configuration leaves the address ledger untouched:   *)
(* no step of a request to the config entry point adds, removes or changes *)
(* a ledger entry, and none reads or writes a per-FQDN store item.         *)
(***************************************************************************)
C31_LedgerUntouched ==
    [][\A r \in ReqIds :
          ConfigStep(r) => /\ localDict' = localDict
                           /\ dbItems' = dbItems
                           /\ gets' = gets
                           /\ req'[r].tasks = <<>>]_vars

C31_Witness ==
    /\ nreq = 2
    /\ req[1].out.status = 200
    /\ localDict[F1] = Item(<< <<A1, 1>> >>, <<>>)
    /\ req[2].cput = "ok"
    /\ req[2].out = Json200(Obj(<< <<"B", Obj(<< <<"fqdn", Str(F2)>> >>)>> >>))
    /\ services[stagedServices].serviceConfig = req[2].body

(***************************************************************************)
(* C32  The contribution of one Request leaf reaches the response buffer   *)
(* as one unit: a step changes a service's buffer only by resetting it or  *)
(* by appending, for exactly one leaf, all the ipv4 and all the ipv6       *)
(* addresses of that leaf's response.                                      *)
(***************************************************************************)
C32_AppendedAsOneUnit ==
    [][\A fs \in 1..Len(services) :
          LET before == services[fs].responseBuffer
              after == services'[fs].responseBuffer
          IN  after # before =>
                 \/ after = EmptyBuffer
                 \/ \E r \in ReqIds : \E k \in 1..Len(req'[r].tasks) :
                       /\ Responds(r, k)
                       /\ req[r].fs = fs
                       /\ \A k2 \in 1..Len(req'[r].tasks) : Responds(r, k2) => k2 = k
                       /\ \A fam \in Families :
                             after[fam] = before[fam] \o AddrsIn(req'[r].tasks[k].resp, fam)]_vars

C32_Witness ==
    /\ nreq = 1
    /\ Len(req[1].tasks) = 2
    /\ req[1].tasks[1].pc = "dns"
    /\ req[1].tasks[2].pc = "done"
    /\ AddrsIn(req[1].tasks[2].resp, "ipv4") = <<A1>>
    /\ AddrsIn(req[1].tasks[2].resp, "ipv6") = <<B1>>
    /\ services[req[1].fs].responseBuffer = [ipv4 |-> <<A1>>, ipv6 |-> <<B1>>]

(***************************************************************************)
(* C33  A configuration store write that fails during a POST is answered   *)
(* with an error and leaves the in-process state as it was: every          *)
(* serviceConfig keeps its value and no service is registered in           *)
(* stagedServices.                                                         *)
(***************************************************************************)
C33_FailedConfigWrite ==
    [][\A r \in ReqIds :
          (req[r].cput = "sent" /\ req'[r].cput = "failed")
             => /\ req'[r].pc = "done"
                /\ req'[r].out = Error501
                /\ ConfigUntouched]_vars

C33_Witness ==
    /\ nreq = 2
    /\ req[1].out.status = 200
    /\ req[2].cfg.body = Param(BodyTwo)
    /\ req[2].cput = "failed"
    /\ req[2].out = Error501
    /\ stagedServices = 1
    /\ services[1].serviceConfig = TplOne
    /\ dbConfig = TplOne

\* a resolution of f has not finished, or its putItem has not been answered
InFlight(f) ==
    \E r \in ReqIds : \E k \in TaskIds(r) :
       /\ Task(r, k).fqdn = f
       /\ (Task(r, k).pc \notin {"done", "failed"} \/ Task(r, k).put = "sent")

(***************************************************************************)
(* C34  Cache/store agreement: whenever f is in the process cache and no   *)
(* resolution of f is in flight, every entry of f's in-memory ledger is in *)
(* the stored item of f with the same validUntil.  The code breaks it.     *)
(***************************************************************************)
C34_CacheStoreAgreement ==
    \A f \in Fqdns :
       (localDict[f].has /\ ~InFlight(f)) =>
          \A fam \in Families : \A i \in 1..Len(localDict[f][fam]) :
             LET a == localDict[f][fam][i][1]
             IN  /\ HasKey(dbItems[f][fam], a)
                 /\ ValueOf(dbItems[f][fam], a) = localDict[f][fam][i][2]

\* the process has written an item for f to the store
HasWritten(f) ==
    \E r \in ReqIds : \E k \in TaskIds(r) : Task(r, k).fqdn = f /\ Task(r, k).put = "ok"

\* resolution k of request r calls putItem in this step
Sends(r, k) ==
    /\ k <= Len(req[r].tasks)
    /\ Len(req'[r].tasks) = Len(req[r].tasks)
    /\ req'[r].tasks[k].nput > req[r].tasks[k].nput

(***************************************************************************)
(* C35  Persisted ledgers never lose addresses: an item the process writes *)
(* for f holds every address of the items it wrote for f before, those     *)
(* still on their way to the store and the one the store holds.  The code  *)
(* breaks it.                                                              *)
(***************************************************************************)
C35_PersistedNeverLose ==
    [][\A r \in ReqIds : \A k \in 1..Len(req'[r].tasks) :
          Sends(r, k) =>
             LET f == req'[r].tasks[k].fqdn
                 item == req'[r].tasks[k].item
             IN  \A fam \in Families :
                    /\ \A r2 \in ReqIds : \A k2 \in TaskIds(r2) :
                          (Task(r2, k2).fqdn = f /\ Task(r2, k2).put = "sent")
                             => Keys(Task(r2, k2).item[fam]) \subseteq Keys(item[fam])
                    /\ HasWritten(f) => Keys(dbItems[f][fam]) \subseteq Keys(item[fam])]_vars

\* request r is a configuration replace that has returned success, and no
\* other replace has been accepted or is under way
LatestReplace(r) ==
    /\ req[r].cput = "ok"
    /\ req[r].pc = "done"
    /\ req[r].out.status = 200
    /\ \A r3 \in ReqIds \ {r} : req[r3].cput \notin {"ok", "sent"}

Ledgered(dict, f, fam, a) == dict[f].has /\ HasKey(dict[f][fam], a)

(***************************************************************************)
(* C37  For a fixed FQDN, family and address, the validUntil held in the   *)
(* in-memory ledger never decreases: a step that leaves the address in the *)
(* ledger leaves its validUntil at least as large as it was.               *)
(***************************************************************************)
C37_ValidUntilMonotone ==
    [][\A f \in Fqdns : \A fam \in Families : \A a \in AllAddr :
          (Ledgered(localDict, f, fam, a) /\ Ledgered(localDict', f, fam, a)) =>
             ValueOf(localDict'[f][fam], a) >= ValueOf(localDict[f][fam], a)]_vars

\* a store read, DNS lookup or store write issued by the process completes
Completion ==
    \/ \E r \in ReqIds, ok \in BOOLEAN : GetConfigReply(r, ok)
    \/ \E r \in ReqIds : \E k \in TaskIds(r), ok \in BOOLEAN : GetReply(r, k, ok)
    \/ \E r \in ReqIds : \E k \in TaskIds(r), fam \in Families :
          \E answer \in env.dns[fam] : DnsReply(r, k, fam, answer)
    \/ \E r \in ReqIds : \E k \in TaskIds(r), ok \in BOOLEAN : PutDone(r, k, ok)

\* an operation the process has issued is unanswered: the getConfig of a
\* request, or the safeGetById, a lookup (resolve4 / resolve6) or the putItem
\* of a resolution
Pending ==
    \E r \in ReqIds :
       \/ req[r].pc = "cfg"
       \/ \E k \in TaskIds(r) :
             \/ req[r].tasks[k].pc = "get"
             \/ /\ req[r].tasks[k].pc = "dns"
                /\ ~(req[r].tasks[k].d.ipv4 /\ req[r].tasks[k].d.ipv6)
             \/ req[r].tasks[k].put = "sent"

\* Weak fairness of Completion, WF_vars(Completion), with its enabling
\* condition ENABLED <<Completion>>_vars written out as Pending: an operation
\* in flight does not stay unanswered for ever.
Fairness == []<>(~Pending) \/ []<><<Completion>>_vars

\* Every template of the main environment, its store items and resolver
\* answers, requests at one instant with the default span.
LiveEnv == [MainEnv EXCEPT !.times = {0}, !.qs = {Qs(<<"json">>, Absent)}]

InitLive ==
    /\ env = LiveEnv
    /\ InitProcess

\* The process when every operation it issues completes.  Nothing obliges a
\* next request to arrive.
SpecLive == InitLive /\ [][Next]_vars /\ Fairness

(***************************************************************************)
(* C38  Every pass terminates: when the operations it issues complete, a   *)
(* request whose pass has started is eventually answered, with the         *)
(* transformed document (200) or with an error (501).                      *)
(***************************************************************************)
C38_PassTerminates ==
    \A r \in 1..MaxReq :
       (req[r].pc = "walk") ~> (req[r].pc = "done" /\ req[r].out.status \in {200, 501})

C38_Witness ==
    /\ req[1].pc = "done"
    /\ req[1].out.status = 200
    /\ Len(req[1].tasks) = 2
    /\ req[1].tasks[1].got = "lost"
    /\ req[1].tasks[1].put = "ok"
    /\ req[1].tasks[2].nput = 0
    /\ req[1].tasks[2].pc = "done"

\* A process that serves two API stages configured with different tables: the
\* stage it was started for, and a stage added later for which no
\* configuration has been posted yet.
StageEnv ==
    [builds |-> {"promise", "async"},
     items |-> {NoItem},
     tpls |-> {TplOne},
     dns |-> [fam \in Families |-> Resolver(fam)],
     qs |-> {Qs(<<"json">>, Absent)},
     stages |-> {MainStage, OtherStage},
     times |-> {0},
     reqs |-> MaxReq, reqsWide |-> MaxReq]

InitStages ==
    /\ env = StageEnv
    /\ InitProcess

SpecStages == InitStages /\ [][Next]_vars

\* resolution k of request r has sent a call to the store
StoreCall(r, k) ==
    \/ Task(r, k).pc = "get"
    \/ Task(r, k).got # "none"
    \/ Task(r, k).nput > 0

(***************************************************************************)
(* C39  Every store operation performed for a request targets the table    *)
(* named by the dbtable stage variable of that request: the configuration  *)
(* reads and writes of its handler, and the per-FQDN reads and write-backs *)
(* of its resolutions, which go through the client of its service.         *)
(***************************************************************************)
C39_TableOfStage ==
    \A r \in ReqIds :
       /\ req[r].store > 0 => req[r].tableName = req[r].table
       /\ \A k \in TaskIds(r) :
             StoreCall(r, k) => services[req[r].fs].dbClient = req[r].table

====
